---- MODULE Spec2Model ----
(***************************************************************************)
(* Model of the jetfinder-be charter pipeline: flight-plan validation      *)
(* (EmailProcessor), the message pipeline (SearchOrchestrator and          *)
(* FlightListProConsumer) and the broker client (RabbitMQClient).          *)
(***************************************************************************)
EXTENDS Integers, Sequences, FiniteSets, TLC

VARIABLES
    planArg,        \* validate_flight_plan: the flights of the analysis passed in
    planResult,     \* validate_flight_plan: "pending", "valid" or "invalid"
    workflow,       \* which callback the consumer thread runs
    alive,          \* the worker process is running
    inbox,          \* broker: messages ready in email_queue
    acked,          \* broker: messages it holds acknowledged
    pc,             \* position of the consumer thread
    msg,            \* the message handed to the callback
    analysis,       \* process_email: the analysis returned by the extraction call
    valid,          \* process_email: result of validate_flight_plan
    radius,         \* process_email: local radius
    vendor_emails,  \* process_email: local vendor_emails
    searchLog,      \* history: the search calls made for msg, in order
    email,          \* process_email: result of build_email
    sending,        \* the send_error_message call in progress
    errorCalls,     \* history: the send_error_message calls made for msg
    outbox,         \* broker: every message published, in order
    store,          \* database: the VendorResponse rows, in insertion order
    results,        \* database: the processing-result rows
    exc,            \* the exception being handled
    raised,         \* history: the exceptions raised inside process_email for msg
    payload,        \* _process_email: the decoded final message of the graph
    clock,          \* the wall clock datetime.now() reads
    ff,             \* the FlightFinderClient instances: fields and position in search
    session,        \* catalog server: the search parameters bound to each session token
    upc,            \* position of the update_flight_search call
    request,        \* update_flight_search: the FlightUpdateRequest
    vendor_response,\* update_flight_search: the record looked up
    updSearches,    \* history: the search calls made by update_flight_search
    updReturn,      \* update_flight_search: the value returned
    dbCall,         \* history: the last PostgresClient call, its arguments and outcome
    broker,         \* the RabbitMQClient: fields, position in connect and consume_messages
    get_cursor,     \* PostgresClient.get_cursor: one use of the context manager
    health          \* the HTTP thread: position in the /health handler

vars == <<planArg, planResult, workflow, alive, inbox, acked, pc, msg, analysis, valid,
          radius, vendor_emails, searchLog, email, sending, errorCalls, outbox,
          store, results, exc, raised, payload, clock, ff, session, upc, request,
          vendor_response, updSearches, updReturn, dbCall, broker, get_cursor, health>>

\* the state of the FlightFinderClient instances and of the catalog server
clientVars == <<ff, session>>

\* the state of the message pipeline and of validate_flight_plan
pipeVars == <<planArg, planResult, workflow, alive, inbox, acked, pc, msg, analysis, valid,
              radius, vendor_emails, searchLog, email, sending, errorCalls, outbox,
              results, exc, raised, payload>>

\* the state of the update_flight_search call
updateVars == <<upc, request, vendor_response, updSearches, updReturn>>

\* the state of the calls made on PostgresClient and RabbitMQClient alone
serviceVars == <<dbCall, broker, get_cursor, health>>

----------------------------------------------------------------------------
(* Bounds of the model *)

MaxLegs == 3        \* longest flight list an analysis carries
MinDay == 8         \* first day of month a travel date falls on
MaxDay == 10        \* last day of month a travel date falls on

----------------------------------------------------------------------------
(* Program constants *)

FlightPlanError == "FlightPlanError"
NoVendorEmailsFound == "NoVendorEmailsFound"
UnknownError == "UnknownError"

InternalErrorQueue == "internal_error"
ManualInterventionQueue == "manual_intervention"
VendorOutreachQueue == "vendor_outreach"
EmailQueue == "email_queue"

max_radius == 250
radius_increment == 50

----------------------------------------------------------------------------
(* Data *)

None == "None"          \* Python None where a string is expected
NoDate == <<>>          \* Python None where a travel_date is expected
NoEmail == [subject |-> <<>>, body |-> <<>>]

Airports == {"KDFW", "KMSY"}
Passengers == {3}
AircraftSizes == {"Light Jet"}

\* travel_date is a string "YYYY-MM-DD HH:MM UTC"; the model varies the two
\* characters of the day field and keeps them as a sequence of digits.
FormatDate(day) == <<day \div 10, day % 10>>
Dates == {FormatDate(d) : d \in MinDay..MaxDay}

\* datetime.strptime(travel_date, "%Y-%m-%d %H:%M UTC").date(): the day number
ParseDate(s) == 10 * s[1] + s[2]

\* Python's > on two strings: lexicographic order of the characters
RECURSIVE StrGreater(_, _)
StrGreater(a, b) ==
    IF a = <<>> THEN FALSE
    ELSE IF b = <<>> THEN TRUE
    ELSE IF a[1] # b[1] THEN a[1] > b[1]
    ELSE StrGreater(Tail(a), Tail(b))

Legs == [origin : Airports, destination : Airports, travel_date : Dates,
         passengers : Passengers, aircraft_size : AircraftSizes]

Plans == UNION {[1..n -> Legs] : n \in 0..MaxLegs}

----------------------------------------------------------------------------
(* EmailProcessor.validate_flight_plan *)

\* the for loop of validate_flight_plan from leg i on, with its two locals
RECURSIVE ValidateLoop(_, _, _, _)
ValidateLoop(flights, i, last_date, last_destination) ==
    IF i > Len(flights) THEN TRUE
    ELSE LET flight == flights[i] IN
         IF last_date # NoDate /\ ~StrGreater(flight.travel_date, last_date)
         THEN FALSE
         ELSE IF last_destination = None
              THEN ValidateLoop(flights, i + 1, flight.travel_date, flight.destination)
              ELSE IF flight.origin # last_destination
                   THEN FALSE
                   ELSE ValidateLoop(flights, i + 1, flight.travel_date, last_destination)

\* a validator that lost its empty-plan check
validate_flight_plan_NoEmptyCheck(flights) ==
    IF Len(flights) = 1 THEN TRUE
    ELSE ValidateLoop(flights, 1, NoDate, None)

validate_flight_plan(flights) ==
    IF Len(flights) = 0 THEN FALSE
    ELSE IF Len(flights) = 1 THEN TRUE
    ELSE ValidateLoop(flights, 1, NoDate, None)

----------------------------------------------------------------------------
(* EmailProcessor.build_email *)

\* parse_flight_dates: the route and the formatted dates; an f-string is kept
\* as the sequence of the values it interpolates
Route(flights) ==
    <<flights[1].origin, flights[1].destination>>
        \o [i \in 1..(Len(flights) - 1) |-> flights[i + 1].origin]

RouteDates(flights) == [i \in 1..Len(flights) |-> ParseDate(flights[i].travel_date)]

build_subject(route, dates, size) == <<route, dates, size>>

build_body(route, dates, passengers) == <<route, dates, passengers>>

build_email(flight_info) ==
    [subject |-> build_subject(Route(flight_info.flights), RouteDates(flight_info.flights),
                               flight_info.flights[1].aircraft_size),
     body |-> build_body(Route(flight_info.flights), RouteDates(flight_info.flights),
                         flight_info.flights[1].passengers)]

----------------------------------------------------------------------------
(* Messages, analyses, envelopes *)

\* dict.get(key, default): the value under key, the default when key is absent
Get(d, key, default) == IF key \in DOMAIN d THEN d[key] ELSE default

\* the inbound messages: content empty, content present, content key absent
Messages == [email_id : {"e1"}, content : {"", "text"}, thread_id : {"t1"},
             user_email : {"u1@x"}]
            \cup [email_id : {"e1"}, thread_id : {"t1"}, user_email : {"u1@x"}]

NoMsg == [email_id |-> None, content |-> None, thread_id |-> None, user_email |-> None]

\* what analyze_incoming_email can return
NotCharter == [is_charter_request |-> FALSE, user_info |-> None, flights |-> <<>>]
Analyses == {NotCharter}
            \cup {[is_charter_request |-> TRUE, user_info |-> "info", flights |-> p] : p \in Plans}

\* what FlightFinderClient.search can return; a vendor page without a mailto:
\* link leaves None in the list
SearchResults == {<<>>, <<"v1@x">>, <<"v1@x", "v2@x">>, <<None>>}

\* str(e) of the exceptions the steps raise
ExtractionError == "ExtractionError"
SearchError == "SearchError"
ComposeError == "ComposeError"
PersistError == "PersistError"
BrokerError == "BrokerError"
GraphError == "GraphError"

\* traceback.format_exc() for exception e
Trace(e) == <<"Traceback", e>>
NoTrace == <<>>

Envelope(error_type, message, error, stacktrace) ==
    [error_type |-> error_type, message |-> message, error |-> error,
     stacktrace |-> stacktrace]

NoSend == [queues |-> <<>>, envelope |-> Envelope(None, NoMsg, None, NoTrace), cont |-> None]

\* payload before the graph has answered
NoPayload == [kind |-> None, vendor_emails |-> <<>>, email_analysis |-> NotCharter]

\* the process_email response wrapped around the message on the no-vendor path
NoVendorResponse(m) == [error |-> NoVendorEmailsFound, email_id |-> m.email_id, message |-> m]

\* get_user_id_by_email against the "User" table
UserTable == [e \in {"u1@x"} |-> "user1"]
get_user_id_by_email(e) == IF e \in DOMAIN UserTable THEN UserTable[e] ELSE None

----------------------------------------------------------------------------
(* FlightFinderClient: data *)

NoInt == -1             \* Python None where an int is expected

\* the lookup table of get_aircraft_size
jetSizes ==
    ("Ultra Long Range" :> 20) @@ ("Heavy Jet" :> 1) @@ ("Super Midsize Jet" :> 11)
    @@ ("Midsize Jet" :> 9) @@ ("Light Jet" :> 8) @@ ("Very Light Jet" :> 14)
    @@ ("Turbo Prop" :> 12) @@ ("Piston Prop" :> 10)

\* a lookup that falls back to the largest category for an unknown label
get_aircraft_size_DefaultLargest(aircraft_size) ==
    IF aircraft_size \notin DOMAIN jetSizes THEN jetSizes["Ultra Long Range"]
    ELSE jetSizes[aircraft_size]

get_aircraft_size(aircraft_size) ==
    IF aircraft_size \notin DOMAIN jetSizes THEN NoInt ELSE jetSizes[aircraft_size]

\* the list comprehension of search: the category numbers of the known labels
size_nums(aircraft_sizes) ==
    LET keep(size) == size # NoInt
    IN SelectSeq([i \in 1..Len(aircraft_sizes) |-> get_aircraft_size(aircraft_sizes[i])],
                 keep)

\* the form of the /search-results request; category[] only for a non-empty list
SearchForm(code, r, pax, flight_sizes) ==
    LET form_data == [capability |-> "PASSENGER", searchby |-> "AirportCode",
                      code |-> code, radius |-> r, pax |-> pax,
                      rdtype |-> "Category", submit_user |-> "search"]
    IN IF flight_sizes # <<>> THEN ("category[]" :> flight_sizes) @@ form_data
       ELSE form_data

\* the body session.post(url, data=form_data) sends: a field whose value is
\* None is left out; pax is the only field search can pass as None
Encoded(form_data) ==
    [k \in {f \in DOMAIN form_data : f # "pax" \/ form_data[f] # NoInt} |-> form_data[k]]

\* the form search submits for its arguments
SubmittedForm(args) ==
    IF size_nums(args.aircraft_sizes) # <<>>
    THEN Encoded(SearchForm(args.airportCode, args.radius, args.numPassengers,
                            size_nums(args.aircraft_sizes)))
    ELSE Encoded(SearchForm(args.airportCode, args.radius, args.numPassengers, <<>>))

\* a listing request for the page after the first
ListingForm_NextPage == [start |-> 30, length |-> 30, order_column |-> 0, order_dir |-> "asc"]

\* the form of the /search-results-ajax request of search
ListingForm == [start |-> 0, length |-> 30, order_column |-> 0, order_dir |-> "asc"]

\* an html element of a result row is kept as the digits its vendor_details(...)
\* call holds, the empty sequence when it holds no such call
Plain == <<>>

\* extract_vendor_id: match.group(1), or None without a match
extract_vendor_id(html_element) == html_element

\* parse_search_results: the ids found in one row, None filtered out
parse_search_results(html_list) ==
    LET found(x) == x # Plain
    IN SelectSeq([i \in 1..Len(html_list) |-> extract_vendor_id(html_list[i])], found)

\* flatmap(self.parse_search_results, xs): the ids of all rows, row after row
RECURSIVE flatmap(_)
flatmap(xs) ==
    IF xs = <<>> THEN <<>> ELSE parse_search_results(Head(xs)) \o flatmap(Tail(xs))

\* int(x) of a string of decimal digits
RECURSIVE int(_)
int(x) == IF x = <<>> THEN 0 ELSE 10 * int(SubSeq(x, 1, Len(x) - 1)) + x[Len(x)]

\* map(lambda x: int(x), xs)
Ints(xs) == [i \in 1..Len(xs) |-> int(xs[i])]

Range(xs) == {xs[i] : i \in 1..Len(xs)}

\* list(S): the elements of a set as a list, in whatever order the set yields them
ListsOf(S) ==
    {xs \in [1..Cardinality(S) -> S] : \A i, j \in 1..Cardinality(S) : xs[i] = xs[j] => i = j}

\* one detail request per row entry: the ids kept as they come
VendorIdLists_PerRow(htmlResponse) == {Ints(flatmap(htmlResponse))}

\* list(set(map(int, flatmap(parse_search_results, htmlResponse))))
VendorIdLists(htmlResponse) == ListsOf(Range(Ints(flatmap(htmlResponse))))

\* a vendor detail page is kept as the hrefs of its anchors, in document order
Href(scheme, rest) == [scheme |-> scheme, rest |-> rest]

IsMailto(href) == href.scheme = "mailto"

\* extract_mailto: the first mailto: href with its prefix removed, else None
extract_mailto(html_text) ==
    IF SelectSeq(html_text, IsMailto) # <<>>
    THEN SelectSeq(html_text, IsMailto)[1].rest
    ELSE None

\* the detail pages the catalog serves
Pages == {<<Href("https", "//vendor.example")>>,
          <<Href("mailto", "ops@a.example")>>,
          <<Href("https", "//vendor.example"), Href("mailto", "ops@b.example")>>}

MaxRows == 2        \* most rows a listing response carries

\* the rows the catalog lists
Rows == {<<Plain>>, <<<<7>>, <<3>>>>, <<<<0, 7>>, Plain>>, <<<<9>>>>}

\* the data of a listing response
Listings == UNION {[1..n -> Rows] : n \in 0..MaxRows}

\* the arguments search is called with
SearchArgs == [airportCode : {"KDFW"}, numPassengers : {NoInt, 3},
               aircraft_sizes : {<<>>, <<"Light Jet">>, <<"Jumbo">>,
                                 <<"Jumbo", "Heavy Jet">>},
               radius : {0, 50}]

NoArgs == [airportCode |-> None, numPassengers |-> NoInt, aircraft_sizes |-> <<>>,
           radius |-> 0]

\* no parameters bound to a session token yet
NoForm == [code |-> None]

\* search has not returned
NoResult == <<"pending">>

Clients == {1, 2}
Processes == {"w1", "w2"}
Tokens == {"s1", "s2"}

\* FlightFinderClient.__init__ in process p under environment env
NewClient(p, env) ==
    [process |-> p, ci_session |-> env[p], pc |-> "idle", args |-> NoArgs,
     htmlResponse |-> <<>>, vendorIds |-> <<>>, vendorEmails |-> <<>>,
     result |-> NoResult, wire |-> <<>>]

\* the clients constructed, each in the process procs gives it
ClientInit(procs, env) ==
    /\ ff = [c \in Clients |-> NewClient(procs[c], env)]
    /\ session = [t \in Tokens |-> NoForm]

\* two clients of one process, none of them in use
ClientsIdle == ClientInit([c \in Clients |-> "w1"], [p \in Processes |-> "s1"])

----------------------------------------------------------------------------
(* update_flight_search: data *)

\* a dict or list that Python's "not" takes for false: None or empty
Falsy(d) == DOMAIN d = {}

NoRow == <<>>           \* fetchone() without a row

\* the FlightUpdateRequest bodies
Requests == [user_id : {"user1"}, message_id : {"e1", "e2"},
             plane_size : {None, "", "Heavy Jet"},
             search_radius : {NoInt, 0, 100},
             number_of_passengers : {NoInt, 0, 5}]

NoRequest == [user_id |-> None, message_id |-> None, plane_size |-> None,
              search_radius |-> NoInt, number_of_passengers |-> NoInt]

\* what update_flight_search returns: an error name or the record
Returned(error, response) == [error |-> error, response |-> response]
NoReturn == Returned(None, NoRow)

\* no PostgresClient call recorded
NoCall == <<>>

\* a RabbitMQClient before __init__ has run
NoBroker ==
    [pc |-> "none", connection |-> None, channel |-> None, retries |-> 0,
     attempts |-> 0, slept |-> <<>>, after |-> None, frames |-> <<>>, outages |-> 0]

\* get_cursor is not in use
NoUnit ==
    [pc |-> "idle", commit |-> FALSE, conn |-> None, cursor |-> None, work |-> None,
     exc |-> None, trace |-> <<>>, pending |-> 0, durable |-> 0, before |-> 0, out |-> 0,
     calls |-> 0]

\* no /health request is being handled
NoHealth == [pc |-> "idle", retries |-> 0, status |-> 0, requests |-> 0, over |-> None]

\* nothing has been called on the two clients alone
ServicesIdle ==
    /\ dbCall = NoCall
    /\ broker = NoBroker
    /\ get_cursor = NoUnit
    /\ health = NoHealth

\* the update_flight_search call has not been made
UpdateIdle ==
    /\ upc = "idle"
    /\ request = NoRequest
    /\ vendor_response = NoRow
    /\ updSearches = <<>>
    /\ updReturn = NoReturn

----------------------------------------------------------------------------
(* Initial states *)

PipeInit(w, msgs) ==
    /\ workflow = w
    /\ alive = TRUE
    /\ inbox = msgs
    /\ acked = {}
    /\ alive
    /\ pc = "idle"
    /\ msg = NoMsg
    /\ analysis = NotCharter
    /\ valid = FALSE
    /\ radius = 0
    /\ vendor_emails = <<>>
    /\ searchLog = <<>>
    /\ email = NoEmail
    /\ sending = NoSend
    /\ errorCalls = <<>>
    /\ outbox = <<>>
    /\ store = <<>>
    /\ results = <<>>
    /\ exc = None
    /\ raised = <<>>
    /\ payload = NoPayload
    /\ clock = 0

Init ==
    /\ planArg = <<>>
    /\ planResult = "pending"
    /\ ClientsIdle
    /\ UpdateIdle
    /\ ServicesIdle
    /\ \E w \in {"orchestrator", "consumer"} : \E m \in Messages : PipeInit(w, <<m>>)

----------------------------------------------------------------------------
(* RabbitMQClient *)

\* consume_messages: the broker hands the next message to the callback; with
\* auto_ack the broker counts it acknowledged on delivery
Deliver ==
    /\ alive
    /\ pc = "idle"
    /\ inbox # <<>>
    /\ msg' = Head(inbox)
    /\ inbox' = Tail(inbox)
    /\ acked' = acked \cup {Head(inbox)}
    /\ pc' = IF workflow = "orchestrator" THEN "process_email" ELSE "c_process_email"
    /\ analysis' = NotCharter
    /\ valid' = FALSE
    /\ radius' = 0
    /\ vendor_emails' = <<>>
    /\ searchLog' = <<>>
    /\ email' = NoEmail
    /\ sending' = NoSend
    /\ errorCalls' = <<>>
    /\ exc' = None
    /\ raised' = <<>>
    /\ payload' = NoPayload
    /\ UNCHANGED <<clientVars, updateVars, serviceVars, clock, planArg, planResult, workflow, alive,
                   outbox, store, results>>

\* an exception of kind e leaves process_email: control goes to the except
\* clause of process_email_external
Raise(e) ==
    /\ exc' = e
    /\ raised' = Append(raised, e)
    /\ pc' = "catch"

\* send_error_message(queues, message, error_type, **kwargs) is entered
BeginSend(error_type, queues, message, error, stacktrace, cont) ==
    /\ sending' = [queues |-> queues,
                   envelope |-> Envelope(error_type, message, error, stacktrace),
                   cont |-> cont]
    /\ errorCalls' = Append(errorCalls, [error_type |-> error_type, queues |-> queues,
                                         envelope |-> Envelope(error_type, message, error, stacktrace)])
    /\ pc' = "send"

\* send_message on the next queue of the send_error_message call: the publish
\* goes through, or the broker connection fails and the exception leaves the
\* call (into the except clause, or out of the callback when raised there)
Publish ==
    /\ alive
    /\ pc = "send"
    /\ \/ /\ outbox' = Append(outbox, [queue |-> Head(sending.queues), body |-> sending.envelope])
          /\ IF Len(sending.queues) = 1
             THEN /\ sending' = NoSend
                  /\ pc' = sending.cont
             ELSE /\ sending' = [sending EXCEPT !.queues = Tail(sending.queues)]
                  /\ pc' = "send"
          /\ UNCHANGED <<exc, raised>>
       \/ /\ sending' = NoSend
          /\ UNCHANGED outbox
          /\ IF exc = None
             THEN Raise(BrokerError)
             ELSE /\ pc' = "dead"
                  /\ UNCHANGED <<exc, raised>>
    /\ UNCHANGED <<clientVars, updateVars, serviceVars, payload, clock, planArg, planResult, workflow, alive, inbox, acked, msg, analysis, valid,
                   radius, vendor_emails, searchLog, email, errorCalls, store, results>>

\* the callback has returned: start_consuming waits for the next delivery
Return ==
    /\ alive
    /\ pc = "done"
    /\ pc' = "idle"
    /\ UNCHANGED <<clientVars, updateVars, serviceVars, payload, clock, planArg, planResult, workflow, alive, inbox, acked, msg, analysis, valid,
                   radius, vendor_emails, searchLog, email, sending, errorCalls,
                   outbox, store, results, exc, raised>>

----------------------------------------------------------------------------
(* SearchOrchestrator.process_email *)

\* a loop that stops one radius short of the cap
LoopCondition_OffByOne == Len(vendor_emails) = 0 /\ radius < max_radius

\* the condition of the while loop
LoopCondition == Len(vendor_emails) = 0 /\ radius <= max_radius

\* a radius update that never widens the search
NextRadius_Stuck(r, res) == r

\* the radius after a search at radius r that returned res
NextRadius(r, res) == IF Len(res) = 0 THEN r + radius_increment ELSE r

\* a validation failure that falls through into vendor discovery
AfterInvalidPlan_FallThrough == "search"

\* where process_email goes after the FlightPlanError report: it returns
AfterInvalidPlan == "done"

\* where process_email goes after the NoVendorEmailsFound report: on to build_email
AfterNoVendorReport == "compose"

\* a no-vendor report copied to the internal-error queue as well
NoVendorQueues_Both == <<InternalErrorQueue, ManualInterventionQueue>>

\* the queues of the NoVendorEmailsFound report
NoVendorQueues == <<ManualInterventionQueue>>

\* the queues of the FlightPlanError report
FlightPlanQueues == <<InternalErrorQueue, ManualInterventionQueue>>

\* an except clause that reports to the internal-error queue only
CatchQueues_InternalOnly == <<InternalErrorQueue>>

\* the queues of the UnknownError report
CatchQueues == <<InternalErrorQueue, ManualInterventionQueue>>

\* a content check that lets every message through
EmptyContent_Never(m) == FALSE

\* email_content = message.get('content', ''); email_content == ""
EmptyContent(m) == Get(m, "content", "") = ""

\* the content check at the head of process_email
ContentCheck ==
    /\ alive
    /\ pc = "process_email"
    /\ pc' = IF EmptyContent(msg) THEN "done" ELSE "analyze"
    /\ UNCHANGED <<clientVars, updateVars, serviceVars, payload, clock, planArg, planResult, workflow, alive, inbox, acked, msg, analysis, valid,
                   radius, vendor_emails, searchLog, email, sending, errorCalls,
                   outbox, store, results, exc, raised>>

\* a classification test that sends every analysis on to validation
AfterAnalysis_AlwaysValidate(a) == "validate"

\* if not analysis.get('is_charter_request'): return
AfterAnalysis(a) == IF a.is_charter_request THEN "validate" ELSE "done"

\* analyze_incoming_email and the is_charter_request test
Analyze ==
    /\ alive
    /\ pc = "analyze"
    /\ \/ /\ Raise(ExtractionError)
          /\ UNCHANGED analysis
       \/ /\ \E a \in Analyses :
                /\ analysis' = a
                /\ pc' = AfterAnalysis(a)
          /\ UNCHANGED <<exc, raised>>
    /\ UNCHANGED <<clientVars, updateVars, serviceVars, payload, clock, planArg, planResult, workflow, alive, inbox, acked, msg, valid, radius,
                   vendor_emails, searchLog, email, sending, errorCalls, outbox,
                   store, results>>

\* validate_flight_plan, the FlightPlanError report, and the loop's initialisation
Validate ==
    /\ alive
    /\ pc = "validate"
    /\ valid' = validate_flight_plan(analysis.flights)
    /\ IF ~valid'
       THEN /\ BeginSend(FlightPlanError, FlightPlanQueues, msg, None, NoTrace,
                         AfterInvalidPlan)
            /\ UNCHANGED <<radius, vendor_emails>>
       ELSE /\ radius' = 0
            /\ vendor_emails' = <<>>
            /\ pc' = "search"
            /\ UNCHANGED <<sending, errorCalls>>
    /\ UNCHANGED <<clientVars, updateVars, serviceVars, payload, clock, planArg, planResult, workflow, alive, inbox, acked, msg, analysis,
                   searchLog, email, outbox, store, results, exc, raised>>

\* one iteration of the radius loop: the search call and the radius update
Search ==
    /\ alive
    /\ pc = "search"
    /\ LoopCondition
    /\ \/ /\ searchLog' = Append(searchLog, [radius |-> radius, result |-> <<>>, raised |-> TRUE])
          /\ Raise(SearchError)
          /\ UNCHANGED <<vendor_emails, radius>>
       \/ /\ \E res \in SearchResults :
                /\ searchLog' = Append(searchLog, [radius |-> radius, result |-> res, raised |-> FALSE])
                /\ vendor_emails' = res
                /\ radius' = NextRadius(radius, res)
          /\ UNCHANGED <<pc, exc, raised>>
    /\ UNCHANGED <<clientVars, updateVars, serviceVars, payload, clock, planArg, planResult, workflow, alive, inbox, acked, msg, analysis, valid,
                   email, sending, errorCalls, outbox, store, results>>

\* the loop has ended: the NoVendorEmailsFound report when nothing was found
LoopExit ==
    /\ alive
    /\ pc = "search"
    /\ ~LoopCondition
    /\ IF Len(vendor_emails) = 0
       THEN BeginSend(NoVendorEmailsFound, NoVendorQueues, NoVendorResponse(msg),
                      None, NoTrace, AfterNoVendorReport)
       ELSE /\ pc' = "compose"
            /\ UNCHANGED <<sending, errorCalls>>
    /\ UNCHANGED <<clientVars, updateVars, serviceVars, payload, clock, planArg, planResult, workflow, alive, inbox, acked, msg, analysis, valid,
                   radius, vendor_emails, searchLog, email, outbox, store, results,
                   exc, raised>>

\* build_email(analysis)
Compose ==
    /\ alive
    /\ pc = "compose"
    /\ \/ /\ Raise(ComposeError)
          /\ UNCHANGED email
       \/ /\ email' = build_email(analysis)
          /\ pc' = "persist"
          /\ UNCHANGED <<exc, raised>>
    /\ UNCHANGED <<clientVars, updateVars, serviceVars, payload, clock, planArg, planResult, workflow, alive, inbox, acked, msg, analysis, valid,
                   radius, vendor_emails, searchLog, sending, errorCalls, outbox,
                   store, results>>

\* the row write_vendor_response inserts
VendorResponseRow(user_id, body, email_id, emails, gen_body, subject, an, r, size, pax, now) ==
    [userId |-> user_id, emailId |-> email_id, vendorEmails |-> emails,
     requestBody |-> body, responseBody |-> gen_body, responseSubject |-> subject,
     updatedAt |-> now, emailAnalysis |-> an, radius |-> r, planeSize |-> size,
     numPassengers |-> pax]

\* write_vendor_response and the return of process_email
Persist ==
    /\ alive
    /\ pc = "persist"
    /\ \/ /\ Raise(PersistError)
          /\ UNCHANGED <<store, clock>>
       \/ /\ get_user_id_by_email(msg.user_email) # None
          /\ store' = Append(store,
                VendorResponseRow(get_user_id_by_email(msg.user_email), msg.content,
                    msg.email_id, vendor_emails, email.body, email.subject, analysis,
                    0, analysis.flights[1].aircraft_size, analysis.flights[1].passengers,
                    clock))
          /\ clock' = clock + 1
          /\ pc' = "done"
          /\ UNCHANGED <<exc, raised>>
    /\ UNCHANGED <<clientVars, updateVars, serviceVars, payload, planArg, planResult, workflow, alive, inbox, acked, msg, analysis, valid,
                   radius, vendor_emails, searchLog, email, sending, errorCalls,
                   outbox, results>>

\* the except clause of process_email_external (both classes have the same one)
Catch ==
    /\ alive
    /\ pc = "catch"
    /\ BeginSend(UnknownError, CatchQueues, msg, exc, Trace(exc), "done")
    /\ UNCHANGED <<clientVars, updateVars, serviceVars, payload, clock, planArg, planResult, workflow, alive, inbox, acked, msg, analysis, valid,
                   radius, vendor_emails, searchLog, email, outbox, store, results,
                   exc, raised>>

----------------------------------------------------------------------------
(* FlightListProConsumer._process_email *)

\* what supervisor_graph.invoke can leave as its final message; the consumer
\* only passes email_analysis on, so single-leg analyses stand for all
GraphOutcomes ==
    {[kind |-> k, vendor_emails |-> <<>>, email_analysis |-> NotCharter] :
        k \in {"no_messages", "bad_json", "skip"}}
    \cup {[kind |-> "payload", vendor_emails |-> v, email_analysis |-> a] :
            v \in SearchResults,
            a \in {x \in Analyses : Len(x.flights) = 1}}

\* the queues of the consumer's NoVendorEmailsFound report
CNoVendorQueues == <<ManualInterventionQueue>>

\* email_content = message.get("content", ""); not email_content
CEmptyContent(m) == Get(m, "content", "") = ""

\* the empty-body check at the head of _process_email
CContentCheck ==
    /\ alive
    /\ pc = "c_process_email"
    /\ pc' = IF CEmptyContent(msg) THEN "done" ELSE "c_graph"
    /\ UNCHANGED <<clientVars, updateVars, serviceVars, payload, clock, planArg, planResult, workflow, alive, inbox, acked, msg, analysis, valid,
                   radius, vendor_emails, searchLog, email, sending, errorCalls,
                   outbox, store, results, exc, raised>>

\* the graph call, the decoding of its final message and the no-vendor report
CGraph ==
    /\ alive
    /\ pc = "c_graph"
    /\ \/ /\ Raise(GraphError)
          /\ UNCHANGED <<analysis, vendor_emails, sending, errorCalls, payload>>
       \/ /\ \E o \in GraphOutcomes :
                /\ payload' = o
                /\ IF o.kind # "payload"
                   THEN /\ pc' = "done"
                        /\ UNCHANGED <<analysis, vendor_emails, sending, errorCalls>>
                   ELSE /\ analysis' = o.email_analysis
                        /\ vendor_emails' = o.vendor_emails
                        /\ IF Len(o.vendor_emails) = 0
                           THEN BeginSend(NoVendorEmailsFound, CNoVendorQueues,
                                          msg, None, NoTrace, "done")
                           ELSE /\ pc' = "c_persist"
                                /\ UNCHANGED <<sending, errorCalls>>
          /\ UNCHANGED <<exc, raised>>
    /\ UNCHANGED <<clientVars, updateVars, serviceVars, clock, planArg, planResult, workflow, alive, inbox, acked, msg, valid, radius,
                   searchLog, email, outbox, store, results>>

\* write_processing_result
CPersist ==
    /\ alive
    /\ pc = "c_persist"
    /\ \/ /\ Raise(PersistError)
          /\ UNCHANGED results
       \/ /\ results' = Append(results,
                [user_email |-> msg.user_email, email_id |-> msg.email_id,
                 provider |-> "flightlistpro", result_type |-> "vendor_response",
                 payload |-> [vendor_emails |-> vendor_emails, email_analysis |-> analysis]])
          /\ pc' = "done"
          /\ UNCHANGED <<exc, raised>>
    /\ UNCHANGED <<clientVars, updateVars, serviceVars, payload, clock, planArg, planResult, workflow, alive, inbox, acked, msg, analysis, valid,
                   radius, vendor_emails, searchLog, email, sending, errorCalls,
                   outbox, store>>

----------------------------------------------------------------------------
(* The worker process *)

Processing == pc \notin {"idle", "done", "dead"}

\* the worker process dies while the callback runs
Crash ==
    /\ alive
    /\ Processing
    /\ alive' = FALSE
    /\ UNCHANGED <<clientVars, updateVars, serviceVars, payload, clock, planArg, planResult, workflow, inbox, acked, pc, msg, analysis,
                   valid, radius, vendor_emails, searchLog, email, sending,
                   errorCalls, outbox, store, results, exc, raised>>

Next ==
    \/ Deliver
    \/ ContentCheck
    \/ Analyze
    \/ Validate
    \/ Search
    \/ LoopExit
    \/ Compose
    \/ Persist
    \/ Catch
    \/ Publish
    \/ Return
    \/ CContentCheck
    \/ CGraph
    \/ CPersist
    \/ Crash

Spec == Init /\ [][Next]_vars

----------------------------------------------------------------------------
(* validate_flight_plan applied to every bounded plan *)

InitValidate ==
    /\ planArg \in Plans
    /\ planResult = "pending"
    /\ ClientsIdle
    /\ UpdateIdle
    /\ ServicesIdle
    /\ PipeInit("orchestrator", <<>>)

CallValidate ==
    /\ planResult = "pending"
    /\ planResult' = IF validate_flight_plan(planArg) THEN "valid" ELSE "invalid"
    /\ UNCHANGED <<clientVars, updateVars, serviceVars, payload, clock, planArg, workflow, alive, inbox, acked, pc, msg, analysis, valid, radius,
                   vendor_emails, searchLog, email, sending, errorCalls, outbox,
                   store, results, exc, raised>>

NextValidate == CallValidate

SpecValidate == InitValidate /\ [][NextValidate]_vars

----------------------------------------------------------------------------
(* FlightFinderClient.search *)

\* a failed request that is sent again
AfterRequestFailure_Retry(step) == step

\* where a failed request leaves search: the exception goes to the caller
AfterRequestFailure(step) == "raised"

\* one request on the wire: its endpoint, its form, whether it went through,
\* and for a listing the parameters the catalog held for the session token
WireRequest(kind, form, ok, served) ==
    [kind |-> kind, form |-> form, ok |-> ok, served |-> served]

\* the caller enters search(airportCode, numPassengers, aircraft_sizes, radius)
FCall(c, args) ==
    /\ ff[c].pc = "idle"
    /\ ff' = [ff EXCEPT ![c].args = args, ![c].pc = "submit"]
    /\ UNCHANGED session

\* search_results: the POST to /search-results; the catalog binds the form to
\* the session token of the request
FSubmit(c) ==
    /\ ff[c].pc = "submit"
    /\ \/ /\ ff' = [ff EXCEPT
                     ![c].wire = Append(@, WireRequest("search-results",
                                            SubmittedForm(ff[c].args), TRUE, NoForm)),
                     ![c].pc = "listing"]
          /\ session' = [session EXCEPT ![ff[c].ci_session] = SubmittedForm(ff[c].args)]
       \/ /\ ff' = [ff EXCEPT
                     ![c].wire = Append(@, WireRequest("search-results",
                                            SubmittedForm(ff[c].args), FALSE, NoForm)),
                     ![c].pc = AfterRequestFailure("submit")]
          /\ UNCHANGED session

\* search_results_ajax(start=0, length=30) and the extraction of the vendor ids
FListing(c, listings) ==
    /\ ff[c].pc = "listing"
    /\ \/ \E data \in listings : \E ids \in VendorIdLists(data) :
             ff' = [ff EXCEPT
                      ![c].wire = Append(@, WireRequest("search-results-ajax", ListingForm,
                                             TRUE, session[ff[c].ci_session])),
                      ![c].htmlResponse = data,
                      ![c].vendorIds = ids,
                      ![c].vendorEmails = <<>>,
                      ![c].pc = "details"]
       \/ ff' = [ff EXCEPT
                   ![c].wire = Append(@, WireRequest("search-results-ajax", ListingForm,
                                          FALSE, NoForm)),
                   ![c].pc = AfterRequestFailure("listing")]
    /\ UNCHANGED session

\* the next element of map(extract_mailto, map(get_vendor_details, vendorIds))
FDetail(c, pages) ==
    /\ ff[c].pc = "details"
    /\ Len(ff[c].vendorEmails) < Len(ff[c].vendorIds)
    /\ LET vendorId == ff[c].vendorIds[Len(ff[c].vendorEmails) + 1]
       IN \/ \E page \in pages :
                ff' = [ff EXCEPT
                         ![c].wire = Append(@, WireRequest("vendor_details",
                                                [id |-> vendorId], TRUE, NoForm)),
                         ![c].vendorEmails = Append(@, extract_mailto(page))]
          \/ ff' = [ff EXCEPT
                      ![c].wire = Append(@, WireRequest("vendor_details",
                                             [id |-> vendorId], FALSE, NoForm)),
                      ![c].pc = AfterRequestFailure("details")]
    /\ UNCHANGED session

\* return vendorEmails
FReturn(c) ==
    /\ ff[c].pc = "details"
    /\ Len(ff[c].vendorEmails) = Len(ff[c].vendorIds)
    /\ ff' = [ff EXCEPT ![c].result = ff[c].vendorEmails, ![c].pc = "returned"]
    /\ UNCHANGED session

----------------------------------------------------------------------------
(* One search call on one client *)

InitSearch ==
    /\ planArg = <<>>
    /\ planResult = "pending"
    /\ ClientsIdle
    /\ UpdateIdle
    /\ ServicesIdle
    /\ PipeInit("orchestrator", <<>>)

SearchCall ==
    /\ \E args \in SearchArgs : FCall(1, args)
    /\ UNCHANGED <<pipeVars, updateVars, serviceVars, store, clock>>

SearchSubmit ==
    /\ FSubmit(1)
    /\ UNCHANGED <<pipeVars, updateVars, serviceVars, store, clock>>

SearchListing ==
    /\ FListing(1, Listings)
    /\ UNCHANGED <<pipeVars, updateVars, serviceVars, store, clock>>

SearchDetail ==
    /\ FDetail(1, Pages)
    /\ UNCHANGED <<pipeVars, updateVars, serviceVars, store, clock>>

SearchReturn ==
    /\ FReturn(1)
    /\ UNCHANGED <<pipeVars, updateVars, serviceVars, store, clock>>

NextSearch ==
    \/ SearchCall
    \/ SearchSubmit
    \/ SearchListing
    \/ SearchDetail
    \/ SearchReturn

SpecSearch == InitSearch /\ [][NextSearch]_vars

----------------------------------------------------------------------------
(* Searches running side by side on two clients *)

\* the two searches ask for different airports
ConcurrentArgs(c) ==
    [airportCode |-> IF c = 1 THEN "KDFW" ELSE "KMSY", numPassengers |-> 3,
     aircraft_sizes |-> <<"Light Jet">>, radius |-> 0]

\* the clients are constructed in one process or in two, and every process
\* takes its token from its own environment
InitConcurrent ==
    /\ planArg = <<>>
    /\ planResult = "pending"
    /\ \E procs \in [Clients -> Processes] : \E env \in [Processes -> Tokens] :
          ClientInit(procs, env)
    /\ UpdateIdle
    /\ ServicesIdle
    /\ PipeInit("orchestrator", <<>>)

ConcurrentCall ==
    /\ \E c \in Clients : FCall(c, ConcurrentArgs(c))
    /\ UNCHANGED <<pipeVars, updateVars, serviceVars, store, clock>>

ConcurrentSubmit ==
    /\ \E c \in Clients : FSubmit(c)
    /\ UNCHANGED <<pipeVars, updateVars, serviceVars, store, clock>>

ConcurrentListing ==
    /\ \E c \in Clients : FListing(c, {<<>>, <<<<<<7>>, <<3>>>>>>})
    /\ UNCHANGED <<pipeVars, updateVars, serviceVars, store, clock>>

ConcurrentDetail ==
    /\ \E c \in Clients : FDetail(c, {<<Href("mailto", "ops@a.example")>>})
    /\ UNCHANGED <<pipeVars, updateVars, serviceVars, store, clock>>

ConcurrentReturn ==
    /\ \E c \in Clients : FReturn(c)
    /\ UNCHANGED <<pipeVars, updateVars, serviceVars, store, clock>>

NextConcurrent ==
    \/ ConcurrentCall
    \/ ConcurrentSubmit
    \/ ConcurrentListing
    \/ ConcurrentDetail
    \/ ConcurrentReturn

SpecConcurrent == InitConcurrent /\ [][NextConcurrent]_vars

----------------------------------------------------------------------------
(* SearchOrchestrator.update_flight_search *)

UpdateError == "UpdateError"    \* an exception that leaves update_flight_search

\* a or b on ints: b when a is None or 0
OrInt(a, b) == IF a \in {NoInt, 0} THEN b ELSE a

\* a or b on strings: b when a is None or ""
OrStr(a, b) == IF a \in {None, ""} THEN b ELSE a

\* a plain assignment of the argument
Coalesce_Overwrite(new, old, null) == new

\* COALESCE(new, old) with null standing for SQL NULL
Coalesce(new, old, null) == IF new = null THEN old ELSE new

\* the rows WHERE "userId" = user_id AND "emailId" = email_id selects
Matching(user_id, email_id) ==
    {i \in 1..Len(store) : store[i].userId = user_id /\ store[i].emailId = email_id}

\* a lookup failure reported as if the search had found nothing
LookupFailure_NoVendor == Returned(NoVendorEmailsFound, NoRow)

\* return self.UnknownError
LookupFailure == Returned(UnknownError, NoRow)

\* an empty-result test that never fires
EmptyResult_Never(emails) == FALSE

\* len(vendor_emails) == 0
EmptyResult(emails) == Len(emails) = 0

\* the locals of update_flight_search once the record has passed its checks
UFlights == vendor_response.emailAnalysis.flights
UNumPassengers == OrInt(request.number_of_passengers, UFlights[1].passengers)
UAircraftSize == OrStr(request.plane_size, UFlights[1].aircraft_size)
\* a radius that widens the stored one on every call
URadius_Widening == vendor_response.radius + radius_increment

URadius == OrInt(request.search_radius, 0)
UVendorEmails == updSearches[Len(updSearches)].result

updated_flights ==
    [i \in 1..Len(UFlights) |->
        [origin |-> UFlights[i].origin,
         destination |-> UFlights[i].destination,
         travel_date |-> UFlights[i].travel_date,
         passengers |-> OrInt(UNumPassengers, UFlights[i].passengers),
         aircraft_size |-> OrStr(UAircraftSize, UFlights[i].aircraft_size)]]

updated_analysis ==
    [user_info |-> Get(vendor_response.emailAnalysis, "user_info", None),
     flights |-> updated_flights]

\* the SET clause of update_vendor_response applied to one row; None, NoInt
\* and, for the analysis, <<>> are the arguments left at None
UpdatedRow(row, emails, body, gen_body, subject, an, r, size, pax, now) ==
    [row EXCEPT
        !.vendorEmails = Coalesce(emails, @, None),
        !.requestBody = Coalesce(body, @, None),
        !.responseBody = Coalesce(gen_body, @, None),
        !.responseSubject = Coalesce(subject, @, None),
        !.updatedAt = now,
        !.emailAnalysis = Coalesce(an, @, <<>>),
        !.radius = Coalesce(r, @, NoInt),
        !.planeSize = Coalesce(size, @, None),
        !.numPassengers = Coalesce(pax, @, NoInt)]

\* the endpoint hands a FlightUpdateRequest to update_flight_search
UCall ==
    /\ upc = "idle"
    /\ \E req \in Requests : request' = req
    /\ upc' = "lookup"
    /\ UNCHANGED <<vendor_response, updSearches, updReturn, store, clock>>
    /\ UNCHANGED <<pipeVars, clientVars, serviceVars>>

\* get_vendor_response_by_user_and_email and the three checks of the record
ULookup ==
    /\ upc = "lookup"
    /\ \/ /\ upc' = "raised"
          /\ updReturn' = Returned(UpdateError, NoRow)
          /\ UNCHANGED vendor_response
       \/ /\ Matching(request.user_id, request.message_id) = {}
          /\ updReturn' = LookupFailure
          /\ upc' = "returned"
          /\ UNCHANGED vendor_response
       \/ \E i \in Matching(request.user_id, request.message_id) :
             /\ vendor_response' = store[i]
             /\ IF \/ Falsy(store[i].emailAnalysis)
                   \/ Falsy(Get(store[i].emailAnalysis, "flights", <<>>))
                THEN /\ updReturn' = LookupFailure
                     /\ upc' = "returned"
                ELSE /\ upc' = "search"
                     /\ UNCHANGED updReturn
    /\ UNCHANGED <<request, updSearches, store, clock>>
    /\ UNCHANGED <<pipeVars, clientVars, serviceVars>>

\* the one search call and the empty-result return
USearch ==
    /\ upc = "search"
    /\ \/ /\ updSearches' = Append(updSearches,
                [airportCode |-> UFlights[1].origin, numPassengers |-> UNumPassengers,
                 aircraft_sizes |-> <<UAircraftSize>>, radius |-> URadius,
                 result |-> <<>>, raised |-> TRUE])
          /\ upc' = "raised"
          /\ updReturn' = Returned(UpdateError, NoRow)
       \/ \E res \in SearchResults :
             /\ updSearches' = Append(updSearches,
                   [airportCode |-> UFlights[1].origin, numPassengers |-> UNumPassengers,
                    aircraft_sizes |-> <<UAircraftSize>>, radius |-> URadius,
                    result |-> res, raised |-> FALSE])
             /\ IF EmptyResult(res)
                THEN /\ updReturn' = Returned(NoVendorEmailsFound, NoRow)
                     /\ upc' = "returned"
                ELSE /\ upc' = "update"
                     /\ UNCHANGED updReturn
    /\ UNCHANGED <<request, vendor_response, store, clock>>
    /\ UNCHANGED <<pipeVars, clientVars, serviceVars>>

\* the recomputed analysis, build_email and update_vendor_response
UUpdate ==
    /\ upc = "update"
    /\ \/ /\ upc' = "raised"
          /\ updReturn' = Returned(UpdateError, NoRow)
          /\ UNCHANGED <<store, clock>>
       \/ /\ store' = [i \in 1..Len(store) |->
                IF i \in Matching(request.user_id, request.message_id)
                THEN UpdatedRow(store[i], UVendorEmails, None,
                                build_email(updated_analysis).body,
                                build_email(updated_analysis).subject,
                                updated_analysis, URadius, UAircraftSize,
                                UNumPassengers, clock)
                ELSE store[i]]
          /\ clock' = clock + 1
          /\ upc' = "refetch"
          /\ UNCHANGED updReturn
    /\ UNCHANGED <<request, vendor_response, updSearches>>
    /\ UNCHANGED <<pipeVars, clientVars, serviceVars>>

\* the record is read back and returned
URefetch ==
    /\ upc = "refetch"
    /\ \/ /\ upc' = "raised"
          /\ updReturn' = Returned(UpdateError, NoRow)
       \/ /\ Matching(request.user_id, request.message_id) = {}
          /\ updReturn' = Returned(UnknownError, NoRow)
          /\ upc' = "returned"
       \/ /\ \E i \in Matching(request.user_id, request.message_id) :
                updReturn' = Returned(None, store[i])
          /\ upc' = "returned"
    /\ UNCHANGED <<request, vendor_response, updSearches, store, clock>>
    /\ UNCHANGED <<pipeVars, clientVars, serviceVars>>

----------------------------------------------------------------------------
(* One update_flight_search call against a stored record *)

\* the itineraries of the stored analyses
StoredPlans ==
    {<<[origin |-> "KDFW", destination |-> "KMSY", travel_date |-> FormatDate(MinDay),
        passengers |-> 3, aircraft_size |-> "Light Jet"]>>,
     <<[origin |-> "KDFW", destination |-> "KMSY", travel_date |-> FormatDate(MinDay),
        passengers |-> 3, aircraft_size |-> "Light Jet"],
       [origin |-> "KMSY", destination |-> "KDFW", travel_date |-> FormatDate(MaxDay),
        passengers |-> 3, aircraft_size |-> "Light Jet"]>>}

\* a row as process_email wrote it for analysis an at time 0
WrittenRow(an) ==
    VendorResponseRow("user1", "text", "e1", <<"v1@x">>, build_email(an).body,
                      build_email(an).subject, an, 0, an.flights[1].aircraft_size,
                      an.flights[1].passengers, 0)

\* a row of the table whose emailAnalysis column holds an
ForeignRow(an) ==
    VendorResponseRow("user1", "text", "e1", <<"v1@x">>, <<>>, <<>>, an, 0, None, NoInt, 0)

\* the contents of the "VendorResponse" table when the call arrives
StoredStates ==
    {<<>>}
    \cup {<<WrittenRow([is_charter_request |-> TRUE, user_info |-> "info", flights |-> p])>> :
            p \in StoredPlans}
    \cup {<<ForeignRow(an)>> :
            an \in {<<>>, [user_info |-> "info"],
                    [is_charter_request |-> TRUE, user_info |-> "info", flights |-> <<>>]}}

InitUpdate ==
    /\ planArg = <<>>
    /\ planResult = "pending"
    /\ ClientsIdle
    /\ UpdateIdle
    /\ ServicesIdle
    /\ workflow = "orchestrator"
    /\ alive = TRUE
    /\ inbox = <<>>
    /\ acked = {}
    /\ pc = "idle"
    /\ msg = NoMsg
    /\ analysis = NotCharter
    /\ valid = FALSE
    /\ radius = 0
    /\ vendor_emails = <<>>
    /\ searchLog = <<>>
    /\ email = NoEmail
    /\ sending = NoSend
    /\ errorCalls = <<>>
    /\ outbox = <<>>
    /\ store \in StoredStates
    /\ results = <<>>
    /\ exc = None
    /\ raised = <<>>
    /\ payload = NoPayload
    /\ clock = 1

NextUpdate ==
    \/ UCall
    \/ ULookup
    \/ USearch
    \/ UUpdate
    \/ URefetch

SpecUpdate == InitUpdate /\ [][NextUpdate]_vars

----------------------------------------------------------------------------
(* update_flight_search called again with the same request *)

MaxCalls == 2    \* calls that reach the vendor search

\* the caller repeats the request once the previous call has ended
UAgain ==
    /\ upc \in {"returned", "raised"}
    /\ Len(updSearches) < MaxCalls
    /\ upc' = "lookup"
    /\ UNCHANGED <<request, vendor_response, updSearches, updReturn, store, clock>>
    /\ UNCHANGED <<pipeVars, clientVars, serviceVars>>

NextRecompute ==
    \/ UCall
    \/ ULookup
    \/ USearch
    \/ UUpdate
    \/ URefetch
    \/ UAgain

SpecRecompute == InitUpdate /\ [][NextRecompute]_vars

----------------------------------------------------------------------------
(* PostgresClient.update_vendor_response and get_vendor_responses_for_user *)

MaxStored == 2    \* rows of the "VendorResponse" table when the call arrives

DbError == "DbError"                        \* an exception raised by a query
ZeroDivisionError == "ZeroDivisionError"

\* the outcome of a PostgresClient call: the exception that left it or its value
Outcome(error, value) == [raised |-> error, value |-> value]

\* the UPDATE of update_vendor_response applied to the table
update_vendor_response(table, a, now) ==
    [i \in 1..Len(table) |->
        IF table[i].userId = a.user_id /\ table[i].emailId = a.email_id
        THEN UpdatedRow(table[i], a.vendor_emails, a.request_body, a.generated_body,
                        a.subject, a.email_analysis, a.radius, a.plane_size,
                        a.number_of_passengers, now)
        ELSE table[i]]

\* the dictionary get_vendor_responses_for_user returns
PageOf(responses, total, page, total_pages) ==
    [responses |-> responses, total |-> total, page |-> page, total_pages |-> total_pages]

\* a ValueError that is left to reach the caller
InvalidPage_Raised(total_count, page, total_pages) == Outcome("ValueError", NoRow)

\* raise ValueError("Invalid page number") and the except clause that returns
InvalidPage(total_count, page, total_pages) ==
    Outcome(None, PageOf(<<>>, total_count, page, total_pages))

\* get_vendor_responses_for_user with both queries answered; rows are stored
\* in the order of their "createdAt"
get_vendor_responses_for_user(table, a) ==
    LET mine == SelectSeq(table, LAMBDA row : row.userId = a.user_id)
        total_count == Len(mine)
        offset == (a.page - 1) * a.page_size
        total_pages == (total_count + a.page_size - 1) \div a.page_size
        sorted == IF a.sort_order \in {"asc", "ASC"}
                  THEN mine
                  ELSE [i \in 1..total_count |-> mine[total_count + 1 - i]]
        last == IF offset + a.page_size < total_count
                THEN offset + a.page_size ELSE total_count
    IN  IF total_count = 0
        THEN Outcome(None, PageOf(<<>>, 0, a.page, 0))
        ELSE IF a.page_size = 0
        THEN Outcome(ZeroDivisionError, NoRow)
        ELSE IF a.page < 1 \/ a.page > total_pages
        THEN InvalidPage(total_count, a.page, total_pages)
        ELSE Outcome(None, PageOf(SubSeq(sorted, offset + 1, last), total_count,
                                  a.page, total_pages))

\* one call of update_vendor_response
DbUpdate ==
    /\ dbCall = NoCall
    /\ \E a \in [user_id : {"user1"}, email_id : {"e1", "e2"},
                 vendor_emails : {None, <<>>, <<"v2@x">>},
                 request_body : {None, ""},
                 generated_body : {None, <<"body">>},
                 subject : {None, <<"subject">>},
                 email_analysis : {<<>>, [user_info |-> "new", flights |-> <<>>]},
                 radius : {NoInt, 0, 50},
                 plane_size : {None, "", "Heavy Jet"},
                 number_of_passengers : {NoInt, 0, 5}] :
          \/ /\ dbCall' = [op |-> "update_vendor_response", args |-> a,
                           outcome |-> Outcome(DbError, NoInt)]
             /\ UNCHANGED <<store, clock>>
          \/ /\ store' = update_vendor_response(store, a, clock)
             /\ clock' = clock + 1
             /\ \/ /\ Matching(a.user_id, a.email_id) = {}
                   /\ dbCall' = [op |-> "update_vendor_response", args |-> a,
                                 outcome |-> Outcome(None, NoInt)]
                \/ \E i \in Matching(a.user_id, a.email_id) :
                      dbCall' = [op |-> "update_vendor_response", args |-> a,
                                 outcome |-> Outcome(None, i)]
    /\ UNCHANGED <<pipeVars, clientVars, updateVars, broker, get_cursor, health>>

\* one call of get_vendor_responses_for_user
DbPage ==
    /\ dbCall = NoCall
    /\ \E a \in [user_id : {"user1", "user3"}, page : -1..(MaxStored + 1),
                 page_size : 0..MaxStored, sort_order : {"asc", "ASC", "desc"}] :
          \/ dbCall' = [op |-> "get_vendor_responses_for_user", args |-> a,
                        outcome |-> Outcome(DbError, NoRow)]
          \/ dbCall' = [op |-> "get_vendor_responses_for_user", args |-> a,
                        outcome |-> get_vendor_responses_for_user(store, a)]
    /\ UNCHANGED <<pipeVars, clientVars, updateVars, broker, get_cursor, health, store, clock>>

\* the rows the table can hold when the call arrives
StoredRows ==
    {WrittenRow([is_charter_request |-> TRUE, user_info |-> "info",
                 flights |-> <<[origin |-> "KDFW", destination |-> "KMSY",
                                travel_date |-> FormatDate(MinDay), passengers |-> 3,
                                aircraft_size |-> "Light Jet"]>>]),
     VendorResponseRow("user1", "text", "e2", <<"v1@x">>, <<"b">>, <<"s">>,
                       [user_info |-> "info"], 100, "Heavy Jet", 5, 0),
     VendorResponseRow("user2", "text", "e1", <<>>, <<"b">>, <<"s">>,
                       [user_info |-> "info"], 0, "", 0, 0)}

InitStore ==
    /\ planArg = <<>>
    /\ planResult = "pending"
    /\ ClientsIdle
    /\ UpdateIdle
    /\ ServicesIdle
    /\ workflow = "orchestrator"
    /\ alive = TRUE
    /\ inbox = <<>>
    /\ acked = {}
    /\ pc = "idle"
    /\ msg = NoMsg
    /\ analysis = NotCharter
    /\ valid = FALSE
    /\ radius = 0
    /\ vendor_emails = <<>>
    /\ searchLog = <<>>
    /\ email = NoEmail
    /\ sending = NoSend
    /\ errorCalls = <<>>
    /\ outbox = <<>>
    /\ store \in UNION {[1..n -> StoredRows] : n \in 0..MaxStored}
    /\ results = <<>>
    /\ exc = None
    /\ raised = <<>>
    /\ payload = NoPayload
    /\ clock = 1

NextStore ==
    \/ DbUpdate
    \/ DbPage

SpecStore == InitStore /\ [][NextStore]_vars

----------------------------------------------------------------------------
(* RabbitMQClient: connect and consume_messages *)

max_retries == 5
retry_delay == 5

MaxOutages == 2    \* AMQPConnectionErrors raised out of start_consuming

\* a wait that grows by retry_delay with every failure
Backoff_Linear(retries) == retry_delay * retries

\* time.sleep(self.retry_delay * (2 ** (retries - 1)))
Backoff(retries) == retry_delay * 2^(retries - 1)

\* self.connect() is entered; after names what its caller does on return
EnterConnect(b, after) ==
    [b EXCEPT !.pc = "connect", !.retries = 0, !.attempts = 0, !.slept = <<>>,
              !.after = after]

\* consume_messages(queue, callback) is entered: ensure_connection and, on an
\* open connection, queue_declare, basic_consume and start_consuming
EnterConsume(b, frame) ==
    LET called == [b EXCEPT !.frames = Append(@, frame)]
    IN  IF called.connection \in {None, "closed"}
        THEN EnterConnect(called, "ensure")
        ELSE [called EXCEPT !.pc = "consuming"]

\* what follows the return of connect in its caller
AfterConnect(b) ==
    IF b.after = "init" THEN [b EXCEPT !.pc = "ready"]
    ELSE IF b.after = "ensure" THEN [b EXCEPT !.pc = "consuming"]
    ELSE EnterConsume(b, b.frames[Len(b.frames)])

\* one pass of the while loop of connect
BAttempt ==
    /\ broker.pc = "connect"
    /\ broker.retries < max_retries
    /\ \/ broker' = AfterConnect([broker EXCEPT !.connection = "open", !.channel = "open",
                                                !.attempts = @ + 1])
       \/ \E conn \in {broker.connection, "open"} :
             LET failed == [broker EXCEPT !.connection = conn, !.retries = @ + 1,
                                          !.attempts = @ + 1]
             IN  IF failed.retries < max_retries
                 THEN broker' = [failed EXCEPT !.slept = Append(@, Backoff(failed.retries))]
                 ELSE broker' = [failed EXCEPT !.pc = "failed", !.frames = <<>>]
    /\ UNCHANGED <<pipeVars, clientVars, updateVars, dbCall, get_cursor, health, store, clock>>

\* the connection is lost while nothing is consumed
BDrop ==
    /\ broker.pc = "ready"
    /\ broker.connection = "open"
    /\ broker' = [broker EXCEPT !.connection = "closed"]
    /\ UNCHANGED <<pipeVars, clientVars, updateVars, dbCall, get_cursor, health, store, clock>>

\* the consumer thread calls consume_messages(EmailQueue, callback)
BConsume ==
    /\ broker.pc = "ready"
    /\ \E callback \in {"process_email_external", "_process_email"} :
          broker' = EnterConsume(broker, [queue |-> EmailQueue, callback |-> callback])
    /\ UNCHANGED <<pipeVars, clientVars, updateVars, dbCall, get_cursor, health, store, clock>>

\* start_consuming raises: an AMQPConnectionError is answered by connect and
\* consume_messages, anything else leaves consume_messages
BInterrupt ==
    /\ broker.pc = "consuming"
    /\ \/ /\ broker.outages < MaxOutages
          /\ broker' = EnterConnect([broker EXCEPT !.connection = "closed",
                                                   !.outages = @ + 1], "except")
       \/ broker' = [broker EXCEPT !.pc = "raised", !.frames = <<>>]
    /\ UNCHANGED <<pipeVars, clientVars, updateVars, dbCall, get_cursor, health, store, clock>>

\* RabbitMQClient() has set its fields and calls connect
InitBroker ==
    /\ planArg = <<>>
    /\ planResult = "pending"
    /\ PipeInit("orchestrator", <<>>)
    /\ ClientsIdle
    /\ UpdateIdle
    /\ dbCall = NoCall
    /\ broker = EnterConnect(NoBroker, "init")
    /\ get_cursor = NoUnit
    /\ health = NoHealth

NextBroker ==
    \/ BAttempt
    \/ BDrop
    \/ BConsume
    \/ BInterrupt

SpecBroker == InitBroker /\ [][NextBroker]_vars

----------------------------------------------------------------------------
(* the broker delivers a message a second time *)

\* the message of the first delivery
FirstDelivery == [email_id |-> "e1", content |-> "text", thread_id |-> "t1",
                  user_email |-> "u1@x"]

\* the first delivery has been processed and its row written; the same
\* message is in the queue again
InitRedelivery ==
    /\ planArg = <<>>
    /\ planResult = "pending"
    /\ ClientsIdle
    /\ UpdateIdle
    /\ ServicesIdle
    /\ workflow = "orchestrator"
    /\ alive = TRUE
    /\ inbox = <<FirstDelivery>>
    /\ acked = {FirstDelivery}
    /\ pc = "idle"
    /\ msg = FirstDelivery
    /\ analysis = NotCharter
    /\ valid = FALSE
    /\ radius = 0
    /\ vendor_emails = <<>>
    /\ searchLog = <<>>
    /\ email = NoEmail
    /\ sending = NoSend
    /\ errorCalls = <<>>
    /\ outbox = <<>>
    /\ results = <<>>
    /\ exc = None
    /\ raised = <<>>
    /\ payload = NoPayload
    /\ \E p \in StoredPlans :
          store = <<WrittenRow([is_charter_request |-> TRUE, user_info |-> "info", flights |-> p])>>
    /\ clock = 1

\* SearchOrchestrator.process_email_external as the callback of the consumer
NextRedelivery ==
    \/ Deliver
    \/ ContentCheck
    \/ Analyze
    \/ Validate
    \/ Search
    \/ LoopExit
    \/ Compose
    \/ Persist
    \/ Catch
    \/ Publish
    \/ Return

SpecRedelivery == InitRedelivery /\ [][NextRedelivery]_vars

----------------------------------------------------------------------------
(* PostgresClient.get_cursor *)

PoolTimeout == "PoolTimeout"                \* getconn found no connection in time
OperationalError == "OperationalError"      \* a call on the connection failed
WorkException == "Exception"                \* an Exception raised by the enclosed work
KeyboardInterrupt == "KeyboardInterrupt"    \* raised in the work, not an Exception

\* the activation u with event e added to what it has done
Did(u, e) == [u EXCEPT !.trace = Append(@, e)]

\* conn.rollback(): the statements of the open transaction are discarded
Rollback(u) == [Did(u, "rollback") EXCEPT !.pending = 0]

\* the connection breaks under a call: the call raises, and the server
\* discards the transaction of the session it lost
Lost(u) == [Did(u, "lost") EXCEPT !.pending = 0, !.conn = "broken", !.exc = OperationalError]

Commits_Always(u) == TRUE

\* if commit:
Commits(u) == u.commit

\* a with-statement on get_cursor(commit) is entered
GcEnter ==
    /\ get_cursor.pc \in {"idle", "returned", "raised"}
    /\ get_cursor.calls < MaxCalls
    /\ \E commit \in BOOLEAN :
          get_cursor' = [NoUnit EXCEPT !.pc = "getconn", !.commit = commit,
                                       !.durable = get_cursor.durable,
                                       !.before = get_cursor.durable,
                                       !.calls = get_cursor.calls + 1]
    /\ UNCHANGED <<pipeVars, clientVars, updateVars, dbCall, broker, health, store, clock>>

\* conn = self.pool.getconn()
GcGetconn ==
    /\ get_cursor.pc = "getconn"
    /\ \/ get_cursor' = [Did(get_cursor, "getconn") EXCEPT !.conn = "open", !.out = @ + 1,
                                                            !.pc = "cursor"]
       \/ get_cursor' = [get_cursor EXCEPT !.exc = PoolTimeout, !.pc = "release"]
    /\ UNCHANGED <<pipeVars, clientVars, updateVars, dbCall, broker, health, store, clock>>

\* cursor = conn.cursor(row_factory=dict_row), outside the inner try
GcCursor ==
    /\ get_cursor.pc = "cursor"
    /\ \/ get_cursor' = [Did(get_cursor, "cursor") EXCEPT !.cursor = "open", !.pc = "yield"]
       \/ get_cursor' = [get_cursor EXCEPT !.exc = OperationalError, !.pc = "release"]
    /\ UNCHANGED <<pipeVars, clientVars, updateVars, dbCall, broker, health, store, clock>>

\* yield cursor: the enclosed work runs its statements and ends normally or
\* raises; an Exception goes to the except clause, anything else past it
GcWork ==
    /\ get_cursor.pc = "yield"
    /\ \E statements \in 0..1 : \E e \in {None, WorkException, KeyboardInterrupt} :
          get_cursor' =
              [(IF statements > 0 THEN Did(get_cursor, "execute") ELSE get_cursor)
                  EXCEPT !.pending = statements,
                         !.work = IF e = None THEN "ok" ELSE "raised",
                         !.exc = e,
                         !.pc = CASE e = None -> "commit"
                                  [] e = WorkException -> "except"
                                  [] OTHER -> "finally"]
    /\ UNCHANGED <<pipeVars, clientVars, updateVars, dbCall, broker, health, store, clock>>

\* if commit: conn.commit(), inside the inner try
GcCommit ==
    /\ get_cursor.pc = "commit"
    /\ IF Commits(get_cursor)
       THEN \/ get_cursor' = [Did(get_cursor, "commit") EXCEPT
                                 !.durable = @ + get_cursor.pending, !.pending = 0,
                                 !.pc = "finally"]
            \/ get_cursor' = [get_cursor EXCEPT !.exc = OperationalError, !.pc = "except"]
       ELSE get_cursor' = [get_cursor EXCEPT !.pc = "finally"]
    /\ UNCHANGED <<pipeVars, clientVars, updateVars, dbCall, broker, health, store, clock>>

\* except Exception: conn.rollback(), log, raise
GcExcept ==
    /\ get_cursor.pc = "except"
    /\ \/ get_cursor' = [Rollback(get_cursor) EXCEPT !.pc = "finally"]
       \/ get_cursor' = [Lost(get_cursor) EXCEPT !.pc = "finally"]
    /\ UNCHANGED <<pipeVars, clientVars, updateVars, dbCall, broker, health, store, clock>>

\* finally: conn.rollback(); cursor.close(). The close is skipped when the
\* rollback raises
GcFinally ==
    /\ get_cursor.pc = "finally"
    /\ IF get_cursor.conn = "broken"
       THEN get_cursor' = [get_cursor EXCEPT !.exc = OperationalError, !.pc = "release"]
       ELSE \/ get_cursor' = [Did(Rollback(get_cursor), "close") EXCEPT
                                 !.cursor = "closed", !.pc = "release"]
            \/ get_cursor' = [Lost(get_cursor) EXCEPT !.pc = "release"]
    /\ UNCHANGED <<pipeVars, clientVars, updateVars, dbCall, broker, health, store, clock>>

\* the outer finally: if conn: self.pool.putconn(conn); then the with-statement
\* ends or the exception goes on to the caller
GcRelease ==
    /\ get_cursor.pc = "release"
    /\ get_cursor' =
          [(IF get_cursor.conn # None
            THEN [Did(get_cursor, "putconn") EXCEPT !.out = @ - 1]
            ELSE get_cursor)
              EXCEPT !.pc = IF get_cursor.exc = None THEN "returned" ELSE "raised"]
    /\ UNCHANGED <<pipeVars, clientVars, updateVars, dbCall, broker, health, store, clock>>

\* a PostgresClient whose pool has handed out no connection
InitCursor ==
    /\ planArg = <<>>
    /\ planResult = "pending"
    /\ PipeInit("orchestrator", <<>>)
    /\ ClientsIdle
    /\ UpdateIdle
    /\ ServicesIdle

NextCursor ==
    \/ GcEnter
    \/ GcGetconn
    \/ GcCursor
    \/ GcWork
    \/ GcCommit
    \/ GcExcept
    \/ GcFinally
    \/ GcRelease

SpecCursor == InitCursor /\ [][NextCursor]_vars

----------------------------------------------------------------------------
(* the /health handler and the consumer thread on the one RabbitMQClient *)

\* app.py has built rabbitmq_client and the server takes requests
Serving(b) == b.pc # "none" /\ ~(b.after = "init" /\ b.pc \in {"connect", "failed"})

\* GET /health: the database check, then rabbitmq_client.ensure_connection(),
\* which returns on an open connection and calls connect otherwise
HRequest ==
    /\ Serving(broker)
    /\ health.pc \in {"idle", "returned"}
    /\ health.requests < MaxCalls
    /\ \/ health' = [health EXCEPT !.pc = "returned", !.status = 503, !.requests = @ + 1]
       \/ health' = IF broker.connection \in {None, "closed"}
                    THEN [health EXCEPT !.pc = "connect", !.retries = 0, !.status = 0,
                                        !.requests = @ + 1]
                    ELSE [health EXCEPT !.pc = "returned", !.status = 200,
                                        !.requests = @ + 1]
    /\ UNCHANGED <<pipeVars, clientVars, updateVars, dbCall, broker, get_cursor, store, clock>>

\* one pass of the while loop of connect on the HTTP thread; over records
\* where the consumer thread is when self.connection and self.channel are
\* assigned
HAttempt ==
    /\ health.pc = "connect"
    /\ health.retries < max_retries
    /\ \/ /\ broker' = [broker EXCEPT !.connection = "open", !.channel = "open"]
          /\ health' = [health EXCEPT !.pc = "returned", !.status = 200, !.over = broker.pc]
       \/ /\ \E conn \in {broker.connection, "open"} :
                broker' = [broker EXCEPT !.connection = conn]
          /\ health' = IF health.retries + 1 < max_retries
                       THEN [health EXCEPT !.retries = @ + 1]
                       ELSE [health EXCEPT !.retries = @ + 1, !.pc = "returned",
                                           !.status = 503]
    /\ UNCHANGED <<pipeVars, clientVars, updateVars, dbCall, get_cursor, store, clock>>

NextHealth ==
    \/ BAttempt
    \/ BDrop
    \/ BConsume
    \/ BInterrupt
    \/ HRequest
    \/ HAttempt

SpecHealth == InitBroker /\ [][NextHealth]_vars

----------------------------------------------------------------------------
(* Flight-plan validation: C1, C2 *)

\* travel dates strictly increasing across the whole sequence
DatesIncreasing(flights) ==
    \A i \in 1..(Len(flights) - 1) :
        ParseDate(flights[i].travel_date) < ParseDate(flights[i + 1].travel_date)

\* every leg starts where the leg before it ended
Continuous(flights) ==
    \A i \in 1..(Len(flights) - 1) : flights[i + 1].origin = flights[i].destination

\* C1: for every analysis with two or more legs, validate_flight_plan returns
\* valid if and only if the travel dates are strictly increasing and every
\* leg's origin equals the destination of the leg immediately before it.
C1_MultiLegValidIffIncreasingAndContinuous ==
    (planResult # "pending" /\ Len(planArg) >= 2)
        => ((planResult = "valid") <=> (DatesIncreasing(planArg) /\ Continuous(planArg)))

\* C2: validate_flight_plan returns invalid for every analysis with zero legs
\* and valid for every analysis with exactly one leg, whatever the leg holds.
C2_ZeroLegsInvalidOneLegValid ==
    planResult # "pending"
        => /\ Len(planArg) = 0 => planResult = "invalid"
           /\ Len(planArg) = 1 => planResult = "valid"

\* a single leg that starts and ends at the same airport has been validated
C2_Witness ==
    /\ Len(planArg) = 1
    /\ planArg[1].origin = planArg[1].destination
    /\ planResult = "valid"

----------------------------------------------------------------------------
(* Radius escalation: C3, C4 *)

\* the most search calls the loop can make: cap / increment + 1
MaxSearchCalls == max_radius \div radius_increment + 1

\* the radii 0, 50, ..., up to the n-th
RadiiUpTo(n) == [i \in 1..n |-> radius_increment * (i - 1)]

SearchRadii == [i \in 1..Len(searchLog) |-> searchLog[i].radius]

\* the loop of process_email has been left by its exit test with nothing found
LoopExhausted ==
    /\ workflow = "orchestrator"
    /\ valid
    /\ pc # "search"
    /\ vendor_emails = <<>>
    /\ SearchError \notin {raised[i] : i \in 1..Len(raised)}

\* C3: the radii passed to the successive search calls for one message are
\* 0, 50, 100, ... in order; no search is issued after a non-empty result (or
\* after a failed call); and when every result is empty the radii are exactly
\* 0, 50, 100, 150, 200, 250 and the NoVendorEmailsFound report follows.
C3_RadiiEscalateUntilFound ==
    /\ SearchRadii = RadiiUpTo(Len(searchLog))
    /\ \A i \in 1..(Len(searchLog) - 1) :
          searchLog[i].result = <<>> /\ ~searchLog[i].raised
    /\ LoopExhausted
          => /\ SearchRadii = <<0, 50, 100, 150, 200, 250>>
             /\ errorCalls # <<>>
             /\ errorCalls[1].error_type = NoVendorEmailsFound

\* every radius up to the cap came back empty and the report has been made
C3_Witness ==
    /\ LoopExhausted
    /\ pc = "compose"
    /\ Len(searchLog) = 6
    /\ \E i \in 1..Len(outbox) : outbox[i].body.error_type = NoVendorEmailsFound

\* what is left of the loop: the iterations it can still make from here
LoopVariant ==
    IF pc = "search" /\ LoopCondition
    THEN (max_radius - radius) \div radius_increment + 1
    ELSE 0

\* C4: the radius loop terminates: the radius never decreases, every iteration
\* that stays in the loop uses up one of the iterations left, and at most
\* cap/increment + 1 = 6 search calls are made, whatever the searches return.
C4_RadiusLoopTerminates ==
    /\ [](Len(searchLog) <= MaxSearchCalls /\ MaxSearchCalls = 6 /\ LoopVariant >= 0)
    /\ [][(pc = "search" /\ pc' = "search" /\ alive')
            => (radius' >= radius /\ LoopVariant' < LoopVariant)]_vars

\* the sixth search call has been made and came back empty
C4_Witness ==
    /\ pc = "search"
    /\ Len(searchLog) = 6
    /\ searchLog[6].result = <<>>
    /\ radius = 300

----------------------------------------------------------------------------
(* Routing of the outcome: C5, C6, C7 *)

\* the callback has returned for msg
CallbackReturned == msg # NoMsg /\ pc \in {"done", "idle"}

Published(q) == {i \in 1..Len(outbox) : outbox[i].queue = q}

\* the outbound success message of the external interface
SuccessMessage ==
    [vendor_emails |-> vendor_emails, email_id |-> msg.email_id,
     thread_id |-> msg.thread_id, user_email |-> msg.user_email,
     body |-> email.body, subject |-> email.subject]

\* C5: when process_email has validated the plan, vendor discovery returned a
\* non-empty contact list and processing finished without an exception, the
\* record is persisted and exactly one success message (contacts, subject,
\* body, email_id, thread_id, user_email) has been published to the
\* vendor-outreach queue.
C5_SuccessPublishedOnce ==
    (/\ workflow = "orchestrator"
     /\ CallbackReturned
     /\ valid
     /\ raised = <<>>
     /\ vendor_emails # <<>>)
        => /\ store # <<>>
           /\ Cardinality(Published(VendorOutreachQueue)) = 1
           /\ \A i \in Published(VendorOutreachQueue) : outbox[i].body = SuccessMessage

\* C6: a message with non-empty content that process_email classified as a
\* charter request does not finish processing without at least one publish
\* attempt to some queue.
C6_CharterMessageAlwaysRouted ==
    (/\ workflow = "orchestrator"
     /\ CallbackReturned
     /\ Get(msg, "content", "") # ""
     /\ analysis.is_charter_request)
        => (errorCalls # <<>> \/ outbox # <<>>)

\* C7: a message is acknowledged only once the callback has returned for it,
\* and a worker that died while processing leaves its message unacknowledged.
C7_AckOnlyAfterOutcome ==
    /\ msg \in acked => pc \in {"done", "idle"}
    /\ ~alive => msg \notin acked

----------------------------------------------------------------------------
(* Error routing: C8, C9, C10 *)

UnknownCalls == {i \in 1..Len(errorCalls) : errorCalls[i].error_type = UnknownError}

Sent(q, error_type) ==
    {i \in Published(q) : outbox[i].body.error_type = error_type}

\* C8: an exception raised inside process_email is caught by
\* process_email_external and reported exactly once as UnknownError, with the
\* error text and the stack trace, to the internal-error and the
\* manual-intervention queue; without an exception nothing is reported so.
C8_ExceptionReportedOnceAsUnknownError ==
    /\ raised = <<>> => UnknownCalls = {}
    /\ (raised # <<>> /\ pc # "catch")
          => /\ Cardinality(UnknownCalls) = 1
             /\ \A i \in UnknownCalls :
                   /\ errorCalls[i].queues = <<InternalErrorQueue, ManualInterventionQueue>>
                   /\ errorCalls[i].envelope =
                         Envelope(UnknownError, msg, raised[1], Trace(raised[1]))
    /\ (raised # <<>> /\ CallbackReturned)
          => \A q \in {InternalErrorQueue, ManualInterventionQueue} :
                /\ Cardinality(Sent(q, UnknownError)) = 1
                /\ \A i \in Sent(q, UnknownError) :
                      outbox[i].body = Envelope(UnknownError, msg, raised[1], Trace(raised[1]))

\* the store write failed and the report reached both queues
C8_Witness ==
    /\ raised = <<PersistError>>
    /\ pc = "done"
    /\ Sent(InternalErrorQueue, UnknownError) # {}
    /\ Sent(ManualInterventionQueue, UnknownError) # {}

\* process_email has found the analysed plan invalid
PlanRejected ==
    /\ workflow = "orchestrator"
    /\ analysis.is_charter_request
    /\ pc # "validate"
    /\ ~valid

\* C9: when the plan fails validation, process_email reports FlightPlanError
\* to the internal-error and the manual-intervention queue and returns: no
\* vendor search, no composition, no store write, no success publish.
C9_InvalidPlanReportedThenStop ==
    PlanRejected
        => /\ errorCalls # <<>>
           /\ errorCalls[1] = [error_type |-> FlightPlanError,
                               queues |-> <<InternalErrorQueue, ManualInterventionQueue>>,
                               envelope |-> Envelope(FlightPlanError, msg, None, NoTrace)]
           /\ pc \in {"send", "catch", "done", "idle", "dead"}
           /\ searchLog = <<>>
           /\ email = NoEmail
           /\ store = <<>>
           /\ results = <<>>
           /\ Published(VendorOutreachQueue) = {}
           /\ (CallbackReturned /\ raised = <<>>)
                 => outbox = <<[queue |-> InternalErrorQueue,
                                body |-> Envelope(FlightPlanError, msg, None, NoTrace)],
                               [queue |-> ManualInterventionQueue,
                                body |-> Envelope(FlightPlanError, msg, None, NoTrace)]>>

\* an invalid two-leg plan has been reported to both queues
C9_Witness ==
    /\ PlanRejected
    /\ Len(analysis.flights) = 2
    /\ pc = "done"
    /\ raised = <<>>
    /\ Len(outbox) = 2

\* vendor discovery has ended with no contact
DiscoveryEmpty ==
    \/ LoopExhausted
    \/ workflow = "consumer" /\ analysis.is_charter_request /\ vendor_emails = <<>>

\* C10: when vendor discovery ends with zero contacts, a NoVendorEmailsFound
\* envelope is sent to the manual-intervention queue and to no other queue.
C10_NoVendorToManualInterventionOnly ==
    /\ \A i \in 1..Len(errorCalls) :
          errorCalls[i].error_type = NoVendorEmailsFound
              => errorCalls[i].queues = <<ManualInterventionQueue>>
    /\ \A i \in 1..Len(outbox) :
          outbox[i].body.error_type = NoVendorEmailsFound
              => outbox[i].queue = ManualInterventionQueue
    /\ (/\ DiscoveryEmpty
        /\ sending.envelope.error_type # NoVendorEmailsFound
        /\ BrokerError \notin {raised[i] : i \in 1..Len(raised)})
          => Cardinality(Sent(ManualInterventionQueue, NoVendorEmailsFound)) = 1

\* the radius cap was exhausted and the report is in the manual-intervention queue
C10_Witness ==
    /\ LoopExhausted
    /\ Len(searchLog) = 6
    /\ pc = "done"
    /\ Sent(ManualInterventionQueue, NoVendorEmailsFound) # {}

----------------------------------------------------------------------------
(* Non-error skips: C11, C12 *)

\* the message handed to the callback has an empty content or none at all
ContentEmpty == msg # NoMsg /\ Get(msg, "content", "") = ""

\* nothing has left the callback for msg: no report, no publish, no store write
NoTraffic ==
    /\ errorCalls = <<>>
    /\ sending = NoSend
    /\ outbox = <<>>
    /\ store = <<>>
    /\ results = <<>>

\* C11: a message whose content is empty or missing halts the pipeline at the
\* content check: the thread never reaches the extraction call (nor the graph
\* call), nothing is published to any queue and nothing is written to the store.
C11_EmptyContentHalts ==
    ContentEmpty
        => /\ pc \in {"process_email", "c_process_email", "done", "idle"}
           /\ analysis = NotCharter
           /\ payload = NoPayload
           /\ searchLog = <<>>
           /\ raised = <<>>
           /\ NoTraffic

\* a message without a content key has been through process_email
C11_Witness ==
    /\ workflow = "orchestrator"
    /\ msg # NoMsg
    /\ "content" \notin DOMAIN msg
    /\ pc = "done"

\* the extraction call has returned an analysis that is not a charter request
\* (in the consumer: the graph has answered with the skip payload)
NotCharterReturned ==
    \/ /\ workflow = "orchestrator"
       /\ msg # NoMsg
       /\ ~ContentEmpty
       /\ pc \notin {"process_email", "analyze"}
       /\ raised = <<>>
       /\ ~analysis.is_charter_request
    \/ /\ workflow = "consumer"
       /\ payload.kind = "skip"

\* C12: when the analysis says is_charter_request = false, processing returns
\* at once: no validation, no vendor search, no composition, no report or
\* publish to any queue and no store write.
C12_NotCharterTerminatesQuietly ==
    NotCharterReturned
        => /\ pc \in {"done", "idle"}
           /\ ~valid
           /\ searchLog = <<>>
           /\ email = NoEmail
           /\ raised = <<>>
           /\ NoTraffic

\* process_email has returned for a message with content that is no charter request
C12_Witness ==
    /\ workflow = "orchestrator"
    /\ Get(msg, "content", "") = "text"
    /\ analysis = NotCharter
    /\ raised = <<>>
    /\ pc = "done"

----------------------------------------------------------------------------
(* Vendor discovery: C13, C14, C15 *)

\* the vendor-detail requests client c has sent, in order
DetailRequests(c) ==
    LET isDetail(w) == w.kind = "vendor_details"
    IN SelectSeq(ff[c].wire, isDetail)

\* the entries of the listing that name a vendor, one per row entry
ListedEntries(data) ==
    {<<r, k>> \in (1..Len(data)) \X (1..2) : k <= Len(data[r]) /\ data[r][k] # Plain}

\* the distinct vendor identifiers the listing names
ListedIds(data) == {int(data[e[1]][e[2]]) : e \in ListedEntries(data)}

\* C13: the vendor identifiers of the result rows are deduplicated before the
\* contacts are resolved: no identifier gets two vendor-detail requests, every
\* request is for an identifier of the listing, and a search that returns has
\* sent exactly one request per distinct identifier and returns one entry each.
C13_OneDetailRequestPerVendor ==
    \A c \in Clients :
        /\ \A i, j \in 1..Len(DetailRequests(c)) :
              DetailRequests(c)[i].form.id = DetailRequests(c)[j].form.id => i = j
        /\ \A i \in 1..Len(DetailRequests(c)) :
              DetailRequests(c)[i].form.id \in ListedIds(ff[c].htmlResponse)
        /\ ff[c].pc = "returned"
              => /\ {DetailRequests(c)[i].form.id : i \in 1..Len(DetailRequests(c))}
                       = ListedIds(ff[c].htmlResponse)
                 /\ Len(ff[c].result) = Cardinality(ListedIds(ff[c].htmlResponse))

\* a listing that names some vendor more than once has been resolved
C13_Witness ==
    /\ ff[1].pc = "returned"
    /\ Cardinality(ListedEntries(ff[1].htmlResponse)) = 3
    /\ Cardinality(ListedIds(ff[1].htmlResponse)) = 2
    /\ Len(DetailRequests(1)) = 2

\* C14: the list search returns holds no null and no empty placeholder: a
\* vendor whose detail page has no mailto: link contributes no entry.
C14_NoNullInReturnedList ==
    \A c \in Clients :
        ff[c].pc = "returned"
            => \A i \in 1..Len(ff[c].result) : ff[c].result[i] \notin {None, ""}

\* C15: the list search returns holds each contact address at most once, also
\* when two vendor identifiers resolve to the same address.
C15_ReturnedEmailsDistinct ==
    \A c \in Clients :
        ff[c].pc = "returned"
            => \A i, j \in 1..Len(ff[c].result) :
                  (ff[c].result[i] # None /\ ff[c].result[i] = ff[c].result[j]) => i = j

----------------------------------------------------------------------------
(* Size filter and transport failures: C16, C17 *)

\* the labels of the call that the lookup table knows, in the order given
KnownLabels(aircraft_sizes) ==
    LET known(l) == l \in {"Ultra Long Range", "Heavy Jet", "Super Midsize Jet",
                           "Midsize Jet", "Light Jet", "Very Light Jet",
                           "Turbo Prop", "Piston Prop"}
    IN SelectSeq(aircraft_sizes, known)

C17_NoRetryOnTransportFailure ==
    \A c \in Clients :
        /\ \A i \in 1..(Len(ff[c].wire) - 1) : ff[c].wire[i].ok
        /\ (ff[c].wire # <<>> /\ ~ff[c].wire[Len(ff[c].wire)].ok)
              => /\ ff[c].pc = "raised"
                 /\ ff[c].result = NoResult
        /\ ff[c].pc = "returned" => \A i \in 1..Len(ff[c].wire) : ff[c].wire[i].ok

\* a vendor-detail request failed after a contact had already been resolved
C17_Witness ==
    /\ ff[1].pc = "raised"
    /\ ff[1].wire[Len(ff[1].wire)].kind = "vendor_details"
    /\ Len(ff[1].vendorEmails) = 1
    /\ ff[1].result = NoResult

----------------------------------------------------------------------------
(* Sessions of concurrent searches: C18 *)

\* the search of client c is under way
InProgress(c) == ff[c].pc \in {"submit", "listing", "details"}

\* C18: searches that run at the same time never use the same session token,
\* and the listing call of every search is served the result set of the
\* parameters that same search submitted.
C18_ConcurrentSearchesOwnSession ==
    /\ \A c, d \in Clients :
          (c # d /\ InProgress(c) /\ InProgress(d))
              => ff[c].ci_session # ff[d].ci_session
    /\ \A c \in Clients : \A i \in 1..Len(ff[c].wire) :
          (ff[c].wire[i].kind = "search-results-ajax" /\ ff[c].wire[i].ok)
              => ff[c].wire[i].served = SubmittedForm(ff[c].args)

----------------------------------------------------------------------------
(* Recompute on a missing record or an empty search: C19, C20 *)

\* the rows the request names
Requested == Matching(request.user_id, request.message_id)

\* a stored analysis that is missing or has no flights
NoFlights(an) == an = <<>> \/ "flights" \notin DOMAIN an \/ an.flights = <<>>

\* the request names no record, or one whose analysis is missing or has no flights
NoUsableRecord ==
    /\ request # NoRequest
    /\ \A i \in Requested : NoFlights(store[i].emailAnalysis)

\* C19: update_flight_search returns UnknownError when no record exists for
\* the user and message id, when the stored analysis is missing, or when it
\* has no flights; in each case no vendor search is issued and the store is
\* not modified.
C19_UnusableRecordIsUnknownError ==
    /\ [](NoUsableRecord
            => /\ upc \in {"lookup", "returned", "raised"}
               /\ upc = "returned" => updReturn = Returned(UnknownError, NoRow)
               /\ updSearches = <<>>)
    /\ [][NoUsableRecord => store' = store]_vars

\* the call has returned for a record whose analysis has an empty flight list
C19_Witness ==
    /\ upc = "returned"
    /\ Requested # {}
    /\ \A i \in Requested :
          /\ store[i].emailAnalysis # <<>>
          /\ "flights" \in DOMAIN store[i].emailAnalysis
          /\ store[i].emailAnalysis.flights = <<>>
    /\ updReturn = Returned(UnknownError, NoRow)

\* the vendor search of the call has come back with an empty list
SearchCameBackEmpty ==
    /\ updSearches # <<>>
    /\ ~updSearches[Len(updSearches)].raised
    /\ updSearches[Len(updSearches)].result = <<>>

\* C20: when the vendor search of update_flight_search returns an empty list,
\* the call returns NoVendorEmailsFound and the stored record is, in every
\* field and in its update timestamp, the record that was looked up.
C20_EmptySearchLeavesRecord ==
    SearchCameBackEmpty
        => /\ upc = "returned"
           /\ updReturn = Returned(NoVendorEmailsFound, NoRow)
           /\ Len(updSearches) = 1
           /\ Requested # {}
           /\ \A i \in Requested : store[i] = vendor_response
           /\ \A i \in Requested : store[i].updatedAt = vendor_response.updatedAt

\* an empty search for a request that overrides all three fields
C20_Witness ==
    /\ SearchCameBackEmpty
    /\ upc = "returned"
    /\ request.plane_size = "Heavy Jet"
    /\ request.search_radius = 100
    /\ request.number_of_passengers = 5
    /\ updSearches[1].radius = 100

----------------------------------------------------------------------------
(* Overrides of a recompute: C21 *)

\* C21: for each of plane size, passenger count and search radius, when the
\* request supplies any non-null value (0 passengers and an empty-string plane
\* size included) the search is issued with that value; otherwise with the
\* stored first leg's value, 0 for the radius.
C21_SuppliedOverridesReachSearch ==
    \A k \in 1..Len(updSearches) :
        /\ updSearches[k].numPassengers =
              IF request.number_of_passengers # NoInt
              THEN request.number_of_passengers
              ELSE vendor_response.emailAnalysis.flights[1].passengers
        /\ updSearches[k].aircraft_sizes =
              IF request.plane_size # None
              THEN <<request.plane_size>>
              ELSE <<vendor_response.emailAnalysis.flights[1].aircraft_size>>
        /\ updSearches[k].radius =
              IF request.search_radius # NoInt THEN request.search_radius ELSE 0

----------------------------------------------------------------------------
(* Repeating a recompute: C22 *)

\* the previous call returned the record as it is now stored
PreviousCallReturnedRecord ==
    /\ updReturn.error = None
    /\ updReturn.response # NoRow
    /\ \A i \in Requested : store[i] = updReturn.response

\* the searches of the previous and of the current call
PreviousSearch == updSearches[Len(updSearches) - 1]
CurrentSearch == updSearches[Len(updSearches)]

\* the current call, a repeat of a call that succeeded, writes its update
RepeatedUpdate ==
    /\ upc = "update"
    /\ upc' = "refetch"
    /\ Len(updSearches) > 1
    /\ PreviousCallReturnedRecord

\* C22: a second update_flight_search with the same overrides issues the
\* same search as the first, and when the search answers the same, the record
\* after the second call equals the record after the first in every field
\* except the update timestamp.
C22_RecomputeIdempotent ==
    [][RepeatedUpdate =>
          /\ [CurrentSearch EXCEPT !.result = <<>>] = [PreviousSearch EXCEPT !.result = <<>>]
          /\ CurrentSearch.result = PreviousSearch.result
                => \A i \in Requested :
                      [store'[i] EXCEPT !.updatedAt = store[i].updatedAt] = store[i]]_vars

\* a repeated call with all three overrides has rewritten the record, only
\* the timestamp moving
C22_Witness ==
    /\ upc = "refetch"
    /\ Len(updSearches) > 1
    /\ CurrentSearch.result = PreviousSearch.result
    /\ updReturn.error = None
    /\ updReturn.response # NoRow
    /\ request.number_of_passengers = 5
    /\ request.plane_size = "Heavy Jet"
    /\ request.search_radius = 100
    /\ \A i \in Requested : store[i].updatedAt > updReturn.response.updatedAt
    /\ \A i \in Requested :
          [store[i] EXCEPT !.updatedAt = updReturn.response.updatedAt] = updReturn.response

----------------------------------------------------------------------------
(* The coalescing update: C23 *)

\* update_vendor_response has been called and its statement has run
Updated ==
    /\ dbCall # NoCall
    /\ dbCall.op = "update_vendor_response"
    /\ dbCall.outcome.raised = None

\* the rows the call names
Named == Matching(dbCall.args.user_id, dbCall.args.email_id)

\* C23: update_vendor_response replaces each updatable field of the rows of
\* the user and email id if and only if the caller supplies a non-null value
\* for it and keeps the stored value otherwise; only the update timestamp
\* changes unconditionally; when no row matches, nothing is changed and None
\* is returned.
C23_UpdateCoalesces ==
    [][Updated' =>
        LET a == dbCall'.args
            hit == {i \in 1..Len(store) :
                       store[i].userId = a.user_id /\ store[i].emailId = a.email_id}
        IN  /\ Len(store') = Len(store)
            /\ \A i \in (1..Len(store)) \ hit : store'[i] = store[i]
            /\ (dbCall'.outcome.value = NoInt) <=> (hit = {})
            /\ \A i \in hit :
                  /\ store'[i].userId = store[i].userId
                  /\ store'[i].emailId = store[i].emailId
                  /\ store'[i].updatedAt = clock
                  /\ store'[i].updatedAt > store[i].updatedAt
                  /\ store'[i].vendorEmails =
                        IF a.vendor_emails # None THEN a.vendor_emails
                        ELSE store[i].vendorEmails
                  /\ store'[i].requestBody =
                        IF a.request_body # None THEN a.request_body
                        ELSE store[i].requestBody
                  /\ store'[i].responseBody =
                        IF a.generated_body # None THEN a.generated_body
                        ELSE store[i].responseBody
                  /\ store'[i].responseSubject =
                        IF a.subject # None THEN a.subject ELSE store[i].responseSubject
                  /\ store'[i].emailAnalysis =
                        IF a.email_analysis # <<>> THEN a.email_analysis
                        ELSE store[i].emailAnalysis
                  /\ store'[i].radius =
                        IF a.radius # NoInt THEN a.radius ELSE store[i].radius
                  /\ store'[i].planeSize =
                        IF a.plane_size # None THEN a.plane_size ELSE store[i].planeSize
                  /\ store'[i].numPassengers =
                        IF a.number_of_passengers # NoInt THEN a.number_of_passengers
                        ELSE store[i].numPassengers]_vars

\* a call that supplies an empty list, an empty plane size and 0 passengers
\* and leaves the radius and the analysis null has rewritten a row
C23_Witness ==
    /\ Updated
    /\ dbCall.args.vendor_emails # None
    /\ Len(dbCall.args.vendor_emails) = 0
    /\ dbCall.args.plane_size = ""
    /\ dbCall.args.number_of_passengers = 0
    /\ dbCall.args.radius = NoInt
    /\ dbCall.args.email_analysis = <<>>
    /\ dbCall.outcome.value # NoInt
    /\ \E i \in Named :
          /\ store[i].vendorEmails = <<>>
          /\ store[i].planeSize = ""
          /\ store[i].numPassengers = 0
          /\ store[i].radius = 100
          /\ store[i].emailAnalysis = [user_info |-> "info"]
          /\ store[i].updatedAt > 0

----------------------------------------------------------------------------
(* Pages of vendor responses: C24 *)

\* get_vendor_responses_for_user has been called and no query of it failed
Paged ==
    /\ dbCall # NoCall
    /\ dbCall.op = "get_vendor_responses_for_user"
    /\ dbCall.outcome.raised # DbError

\* the number of records of the user asked for
TrueTotal == Cardinality({i \in 1..Len(store) : store[i].userId = dbCall.args.user_id})

\* the number of pages the records of the user fill
TruePages ==
    CHOOSE p \in 0..TrueTotal :
        /\ p * dbCall.args.page_size >= TrueTotal
        /\ p > 0 => (p - 1) * dbCall.args.page_size < TrueTotal

----------------------------------------------------------------------------
(* Bounded retry of connect: C26 *)

\* the waits after the first k failed attempts
WaitsAfter(k) == [j \in 1..k |-> retry_delay * 2^(j - 1)]

\* connect has returned to its caller in this step
ConnectReturns == broker.pc = "connect" /\ broker'.pc \notin {"connect", "failed"}

\* C26: connect makes at most max_retries attempts; after the k-th failed
\* attempt, k < max_retries, it waits retry_delay * 2^(k-1) before the next
\* one; after the max_retries-th failure it raises without waiting; on the
\* first success it returns with connection and channel set, and no further
\* attempt is made.
C26_ConnectRetriesBounded ==
    /\ [](/\ broker.attempts <= max_retries
          /\ broker.pc = "connect"
                => /\ broker.attempts = broker.retries
                   /\ broker.retries < max_retries
                   /\ broker.slept = WaitsAfter(broker.retries)
          /\ broker.pc = "failed"
                => /\ broker.attempts = max_retries
                   /\ broker.slept = WaitsAfter(max_retries - 1))
    /\ [][/\ ConnectReturns
                => /\ broker'.connection = "open"
                   /\ broker'.channel = "open"
                   /\ broker'.attempts = broker.retries + 1
                   /\ broker'.slept = broker.slept
          /\ broker.pc # "connect"
                => \/ broker'.attempts = broker.attempts
                   \/ broker'.pc = "connect" /\ broker'.attempts = 0]_vars

\* the constructor's connect has failed max_retries times and raised
C26_Witness ==
    /\ broker.pc = "failed"
    /\ broker.after = "init"
    /\ broker.attempts = max_retries
    /\ broker.slept = <<5, 10, 20, 40>>
    /\ broker.channel = None

\* connect has succeeded at its third attempt, after waits of 5 and 10
C26_WitnessSuccess ==
    /\ broker.pc = "ready"
    /\ broker.attempts = 3
    /\ broker.slept = <<5, 10>>
    /\ broker.connection = "open"
    /\ broker.channel = "open"

----------------------------------------------------------------------------
(* Reconnect and resume: C25 *)

\* C25: after a transport error interrupts consumption the client reconnects
\* and resumes consuming the same queue with the same callback, and the
\* depth of consume_messages calls on the stack stays bounded by a constant
\* however many connection errors occur.
C25_ResumeWithoutStackGrowth ==
    /\ \A i, j \in 1..Len(broker.frames) : broker.frames[i] = broker.frames[j]
    /\ Len(broker.frames) <= 1

----------------------------------------------------------------------------
(* The radius of the persisted record: C27 *)

\* the last vendor search made for the message in hand
LastSearch == searchLog[Len(searchLog)]

\* C27: the record process_email persists stores, as its search radius, the
\* radius of the search call that produced the stored contact list.
C27_StoredRadiusIsSearchRadius ==
    [][Len(store') > Len(store)
          => LET row == store'[Len(store')]
             IN  row.vendorEmails # <<>>
                    => /\ searchLog # <<>>
                       /\ row.vendorEmails = LastSearch.result
                       /\ row.radius = LastSearch.radius]_vars

----------------------------------------------------------------------------
(* The message field of error envelopes: C28 *)

\* C28: every error envelope, of every error type, carries as its message
\* field the inbound message exactly as it was received, not a structure
\* wrapped around it.
C28_EnvelopeCarriesInboundMessage ==
    /\ \A i \in 1..Len(errorCalls) : errorCalls[i].envelope.message = msg
    /\ sending # NoSend => sending.envelope.message = msg

----------------------------------------------------------------------------
(* The order of the requests of a search: C29 *)

\* the kinds of the requests client c has sent, in order
WireKinds(c) == [i \in 1..Len(ff[c].wire) |-> ff[c].wire[i].kind]

\* C29: a search call sends its requests in a fixed order: exactly one
\* search-submit, then exactly one listing request (start 0, length 30), then
\* the vendor-detail requests; no listing precedes the submit and no second
\* listing page is requested.
C29_RequestsInFixedOrder ==
    \A c \in Clients :
        /\ \A i \in 1..Len(ff[c].wire) :
              /\ i = 1 <=> WireKinds(c)[i] = "search-results"
              /\ i = 2 <=> WireKinds(c)[i] = "search-results-ajax"
              /\ i > 2 <=> WireKinds(c)[i] = "vendor_details"
        /\ \A i \in 1..Len(ff[c].wire) :
              WireKinds(c)[i] = "search-results-ajax"
                  => /\ ff[c].wire[i].form.start = 0
                     /\ ff[c].wire[i].form.length = 30
        /\ ff[c].pc = "details" => Len(ff[c].wire) >= 2
        /\ ff[c].pc = "returned"
              => /\ Len(ff[c].wire) = 2 + Len(ff[c].result)
                 /\ \A i \in 1..Len(ff[c].wire) : ff[c].wire[i].ok

\* a search that asked for the details of two vendors has returned
C29_Witness ==
    /\ ff[1].pc = "returned"
    /\ WireKinds(1) = <<"search-results", "search-results-ajax", "vendor_details",
                        "vendor_details">>
    /\ ff[1].wire[2].form = [start |-> 0, length |-> 30, order_column |-> 0,
                             order_dir |-> "asc"]

----------------------------------------------------------------------------
(* The passenger field of the search-submit: C30 *)

\* C30: when search is called with a null passenger count, its search-submit
\* request carries pax = "Any"; when a count is given, pax carries that count.
C30_NullPassengersSubmitAny ==
    \A c \in Clients : \A i \in 1..Len(ff[c].wire) :
        ff[c].wire[i].kind = "search-results"
            => /\ "pax" \in DOMAIN ff[c].wire[i].form
               /\ IF ff[c].args.numPassengers = NoInt
                  THEN ff[c].wire[i].form.pax = "Any"
                  ELSE ff[c].wire[i].form.pax = ff[c].args.numPassengers

----------------------------------------------------------------------------
(* What a successful recompute searches and stores: C32 *)

\* the legs of the record the call looked up
StoredLegs == vendor_response.emailAnalysis.flights

\* the effective values of a recompute: the override when the request
\* supplies one, the stored first leg's value (0 for the radius) otherwise
EffectivePassengers ==
    IF request.number_of_passengers # NoInt THEN request.number_of_passengers
    ELSE StoredLegs[1].passengers
EffectiveSize ==
    IF request.plane_size # None THEN request.plane_size ELSE StoredLegs[1].aircraft_size
EffectiveRadius == IF request.search_radius # NoInt THEN request.search_radius ELSE 0

\* update_flight_search has written its update
RecomputeSucceeded ==
    \/ upc = "refetch"
    \/ upc = "returned" /\ updReturn.error = None /\ updReturn.response # NoRow

\* C32: a successful update_flight_search issues exactly one vendor search,
\* with the effective origin, passenger count, aircraft size and radius, and
\* the analysis it persists has every leg's passenger count and aircraft size
\* set to the effective values while each leg's origin, destination and
\* travel date are unchanged.
C32_OneSearchUniformOverride ==
    RecomputeSucceeded
        => /\ Len(updSearches) = 1
           /\ updSearches[1].airportCode = StoredLegs[1].origin
           /\ updSearches[1].numPassengers = EffectivePassengers
           /\ updSearches[1].aircraft_sizes = <<EffectiveSize>>
           /\ updSearches[1].radius = EffectiveRadius
           /\ \A i \in Requested :
                 LET legs == store[i].emailAnalysis.flights
                 IN  /\ Len(legs) = Len(StoredLegs)
                     /\ \A k \in 1..Len(legs) :
                           /\ legs[k].passengers = EffectivePassengers
                           /\ legs[k].aircraft_size = EffectiveSize
                           /\ legs[k].origin = StoredLegs[k].origin
                           /\ legs[k].destination = StoredLegs[k].destination
                           /\ legs[k].travel_date = StoredLegs[k].travel_date

----------------------------------------------------------------------------
(* The analysis snapshot across a recompute: C36 *)

\* C36: after a successful recompute the persisted analysis has the same
\* top-level fields (is_charter_request, user_info) as before, the same
\* number of legs in the same order, and per leg the same origin, destination
\* and travel date; only passenger count and aircraft size may differ.
C36_SnapshotPreserved ==
    RecomputeSucceeded
        => \A i \in Requested :
              LET before == vendor_response.emailAnalysis
                  after == store[i].emailAnalysis
              IN  /\ DOMAIN after = DOMAIN before
                  /\ \A f \in (DOMAIN before \cap DOMAIN after) \ {"flights"} :
                        after[f] = before[f]
                  /\ Len(after.flights) = Len(before.flights)
                  /\ \A k \in 1..Len(before.flights) :
                        /\ after.flights[k].origin = before.flights[k].origin
                        /\ after.flights[k].destination = before.flights[k].destination
                        /\ after.flights[k].travel_date = before.flights[k].travel_date

----------------------------------------------------------------------------
(* One error classification per message: C33 *)

\* the error types of the envelopes published for the message
PublishedTypes == {outbox[i].body.error_type : i \in 1..Len(outbox)}

\* C33: at most one error classification is published for one inbound
\* message: a message reported as NoVendorEmailsFound is never also reported
\* as UnknownError, nor is any other pair of classifications sent for it.
C33_OneClassificationPerMessage ==
    Cardinality(PublishedTypes) <= 1


(* ---------------------------------------------------------------------- *)
(* Exceptions leaving the callback: C34                                    *)
(* ---------------------------------------------------------------------- *)

\* an exception has left process_email_external into the consume loop
Propagated == pc = "dead"

\* C34: process_email_external never propagates an exception to the consume
\* loop: whatever fails while a message is processed, a failure to publish
\* the error envelope included, the callback returns normally
C34_CallbackNeverPropagates == ~Propagated


(* ---------------------------------------------------------------------- *)
(* One record per user and email: C35                                      *)
(* ---------------------------------------------------------------------- *)

\* the store rows of one user and one source email
RowsOf(userId, emailId) ==
    {i \in 1..Len(store) : store[i].userId = userId /\ store[i].emailId = emailId}

\* C35: after any deliveries, redelivery of the same email_id for the same
\* user included, the store holds at most one VendorResponse record per
\* (user, email id) pair
C35_OneRecordPerUserAndEmail ==
    \A i \in 1..Len(store) : Cardinality(RowsOf(store[i].userId, store[i].emailId)) <= 1


(* ---------------------------------------------------------------------- *)
(* The unit of work of get_cursor: C31                                     *)
(* ---------------------------------------------------------------------- *)

\* the positions in the trace of get_cursor where event e happened
When(e) == {i \in 1..Len(get_cursor.trace) : get_cursor.trace[i] = e}

\* the with-statement has been left, normally or by an exception
CursorLeft == get_cursor.pc \in {"returned", "raised"}

\* the transaction was ended without a commit before position i: by a
\* rollback, or by the server when the connection broke
Discarded(i) == \E j \in When("rollback") \cup When("lost") : j < i

\* C31: for every use of get_cursor and every outcome of the enclosed work,
\* the connection taken from the pool is returned exactly once; a commit
\* happens only when commit=True and the work finished without an exception;
\* when the work raises the transaction is rolled back, nothing is committed
\* and the exception propagates; on the read path the transaction is rolled
\* back before the connection is released
C31_UnitOfWork ==
    /\ Cardinality(When("putconn")) <= Cardinality(When("getconn"))
    /\ get_cursor.out = Cardinality(When("getconn")) - Cardinality(When("putconn"))
    /\ CursorLeft => /\ Cardinality(When("putconn")) = Cardinality(When("getconn"))
                     /\ get_cursor.out = 0
    /\ When("commit") # {} => /\ get_cursor.commit
                              /\ get_cursor.work = "ok"
                              /\ \A i \in When("commit") : When("execute") \subseteq 1..i
    /\ When("commit") = {} => get_cursor.durable = get_cursor.before
    /\ CursorLeft /\ get_cursor.work = "raised" =>
          /\ When("commit") = {}
          /\ get_cursor.durable = get_cursor.before
          /\ get_cursor.pending = 0
          /\ \A i \in When("putconn") : Discarded(i)
          /\ get_cursor.pc = "raised"
    /\ ~get_cursor.commit /\ get_cursor.work # None =>
          /\ \A i \in When("putconn") : Discarded(i) /\ get_cursor.pending = 0
          /\ get_cursor.durable = get_cursor.before

\* a writing use whose work ran a statement and raised has been left, and an
\* earlier use has committed its statement
C31_Witness ==
    /\ get_cursor.pc = "raised"
    /\ get_cursor.commit
    /\ get_cursor.work = "raised"
    /\ When("execute") # {}
    /\ When("putconn") # {}
    /\ get_cursor.durable > 0


(* ---------------------------------------------------------------------- *)
(* Two threads on one broker client: C37                                   *)
(* ---------------------------------------------------------------------- *)

\* the consumer thread is inside connect or start_consuming on the client
ConsumerOnClient == broker.pc \in {"connect", "consuming"}

\* C37: the RabbitMQClient shared by the consumer thread and the /health
\* handler is never reconnected by one thread while the other is consuming
\* on it, and the two threads' operations on the connection do not interleave
C37_NoReconnectUnderConsumer ==
    /\ health.over \notin {"connect", "consuming"}
    /\ ~(health.pc = "connect" /\ ConsumerOnClient)

====
